---- MODULE Spec2Model ----
(***************************************************************************)
(* Model of the conversation-turn orchestrator of minimal-agentic-system:  *)
(*   src/src/utils/generators.js  task scheduler                           *)
(*   src/src/query.js             execution tracker and recursive query()  *)
(*   src/src/tools.js             tool registry                            *)
(*   src/unnamed/part_005         utils/messages.js (createToolSignature)  *)
(***************************************************************************)
EXTENDS Integers, Sequences, FiniteSets, TLC

\* ------------------------------------------------------------------------
\* Bounds of the model
\* ------------------------------------------------------------------------
\* tasks handed to executeTasksOptimally in the scheduler-only specification
MaxTasks == 3
\* largest maxConcurrency tried in the scheduler-only specification
MaxConc == 2
\* frames per run in specifications Spec and SpecDup
MaxFrames == 3
\* frames per run in specification SpecDeep
MaxFramesDeep == 5
\* tool requests accepted per response
MaxTools == 2
\* responses per turn that may request tools in specification Spec
MaxSteps == 2
\* top-level calls per run
MaxTurns == 2
\* clock advances per run
MaxTicks == 2
\* size of one clock advance in milliseconds
TickMs == 30000
\* members of an argument object in specification SpecSig
MaxMembers == 3
\* records of a response body in specification SpecSse
MaxRecords == 3
\* frames of a response in specification SpecAsm
MaxFramesAsm == 4
\* remote calls per turn of the iterative orchestrator in specification SpecIter
MaxIterCalls == 6
\* input lines typed per run in specification SpecRepl
MaxLines == 3

VARIABLES
    mode,              \* which specification drives the run: "sched" | "turn" | "deep" | "dup"
                       \* | "sse" | "asm" | "sig" | "blk" | "perm" | "iter" | "repl"
    \* --- the tool block the remote service is streaming (specification SpecAsm) ---
    argBlock,          \* the toolUse of its content_block_start, id 0 when there is none
    argText,           \* the whole argument text its input_json_delta frames will carry
    argRest,           \* the part of argText not sent yet
    argCuts,           \* lengths of the prefixes of argText at which a fragment ended
    \* --- permissions (part_003) ---
    approvedPermissions,  \* keys the user has approved in this session
    asking,            \* tasks whose requestPermission call waits for the user's answer
    \* --- the caller's input loop (index.js lines 476-679) ---
    isAwaitingUserInput,
    linesTyped,        \* number of input lines typed so far
    lastLine,          \* the last line typed: its kind, whether it was rejected, whether a turn was in flight
    controller,        \* identity of the current AbortController
    querySignal,       \* identity of the signal passed to the latest query() call, 0 when none
    fired,             \* identities of the controllers on which abort() was called
    \* --- the iterative query() of src/unnamed/part_001 (lines 165-336) ---
    iterPc,            \* "idle" | "loop" (at the while condition) | "tools" | "done"
    iterEvents,        \* event types the generator has yielded
    iterMessages,      \* kinds of the messages in the caller's array, which the generator pushes to
    iterCalls,         \* queryClaude calls made
    iterRequests,      \* toolUseRequests of the current iteration (tool names)
    iterPos,           \* position of the tool loop in iterRequests
    isQueryComplete,
    \* --- queryClaude's SSE read loop (claude.js lines 59-101) ---
    stream,            \* the records and the trailer the response body will deliver
    rest,              \* the part of it that reader.read() has not delivered yet
    buffer,            \* the decoder's buffer
    emitted,           \* frames the generator has yielded
    dpc,               \* position of the generator: "idle" | "reading" | "done" | "threw"
    tasks,             \* the tasks array given to executeTasksOptimally
    maxConcurrency,    \* its maxConcurrency argument
    spc,               \* position of executeTasksOptimally / runConcurrently / runSequentially
    gen,               \* per task: state of its wrapper async generator
    reqs,              \* per task: number of next() requests queued on the generator and not yet answered
    cur,               \* per task: the newest queued request belongs to the Promise.race now awaited
    activeGenerators,  \* runConcurrently: positions (in the read list) of the active generators
    nextIndex,         \* runConcurrently: number of generators created so far
    wpos,              \* runSequentially: position (in the write list) of the generator being run
    fnState,           \* per task: "idle" | "running" | "ok" | "err"  (the task function task.fn)
    fnStarts,          \* order in which task functions were invoked (task indices)
    out,               \* results yielded by executeTasksOptimally so far, in yield order
    \* --- toolExecutionTracker (query.js lines 13-120) ---
    recursionDepth,
    toolIds,
    toolSignatures,
    timeWindowedSignatures,   \* function: signature -> timestamp
    contentBlockIds,
    \* --- the running query() frames ---
    qpc,               \* position of the innermost query() frame
    frames,            \* number of query() frames on the call chain
    messages,          \* the messages argument of the innermost frame
    updatedMessages,   \* its updatedMessages local
    toolUseRequests,
    assistantResponseText,
    currentToolInputJson,
    currentToolUseId,  \* 0 stands for null
    skippingDuplicateTool,
    finalAssistantMessageStructure,  \* <<>> stands for null, else <<[text, tool_uses]>>
    \* --- environment and observation ---
    now,               \* Date.now()
    frameCount,        \* frames the remote service has sent in this run
    aborted,           \* abortSignal.aborted
    history,           \* the caller's message list
    turn,              \* number of top-level calls made
    events,            \* events yielded to the caller in the current turn
    remoteCalls,       \* queryClaude calls made in the current turn
    callLog            \* tool.call() invocations of the finished steps of the current turn

schedVars == <<tasks, maxConcurrency, spc, gen, reqs, cur, activeGenerators,
               nextIndex, wpos, fnState, fnStarts, out>>

trackerVars == <<recursionDepth, toolIds, toolSignatures, timeWindowedSignatures, contentBlockIds>>

frameVars == <<qpc, frames, messages, updatedMessages, toolUseRequests, assistantResponseText,
               currentToolInputJson, currentToolUseId, skippingDuplicateTool,
               finalAssistantMessageStructure>>

decoderVars == <<stream, rest, buffer, emitted, dpc>>

obsVars == <<now, aborted, history, turn, events, remoteCalls, callLog>>

envVars == <<frameCount, obsVars>>

queryVars == <<trackerVars, frameVars, envVars>>

\* mode and everything the specifications of query() and of the scheduler never touch
asmVars == <<argBlock, argText, argRest, argCuts>>

permVars == <<approvedPermissions, asking>>

replVars == <<isAwaitingUserInput, linesTyped, lastLine, controller, querySignal, fired>>

iterVars == <<iterPc, iterEvents, iterMessages, iterCalls, iterRequests, iterPos, isQueryComplete>>

modeVars == <<mode, decoderVars, asmVars, permVars, replVars, iterVars>>

vars == <<modeVars, schedVars, queryVars>>

\* ------------------------------------------------------------------------
\* Helpers
\* ------------------------------------------------------------------------
Min(a, b) == IF a < b THEN a ELSE b

Range(s) == {s[k] : k \in DOMAIN s}

\* tasks.filter(task => task.isReadOnly): indices of the read-only tasks, in request order
ReadIdx(ts) ==
    LET F[k \in 0..Len(ts)] ==
          IF k = 0 THEN <<>>
          ELSE IF ts[k].isReadOnly THEN Append(F[k-1], k) ELSE F[k-1]
    IN F[Len(ts)]

\* tasks.filter(task => !task.isReadOnly): indices of the write tasks, in request order
WriteIdx(ts) ==
    LET F[k \in 0..Len(ts)] ==
          IF k = 0 THEN <<>>
          ELSE IF ~ts[k].isReadOnly THEN Append(F[k-1], k) ELSE F[k-1]
    IN F[Len(ts)]

\* runConcurrently lines 32-36: generators created before the loop
InitialActive_unbounded(n, B) == 1..n

InitialActive(n, B) == 1..Min(B, n)

\* runConcurrently line 39: the loop (and with it the read phase) ends when no generator is active
ReadPhaseOver_early(act) == Cardinality(act) <= 1

ReadPhaseOver(act) == act = {}

\* runSequentially lines 8-13: the next generator is created only after the previous one is exhausted;
\* gives the write positions whose generator is started now
WritesToStart_all(pos, n) == pos..n

WritesToStart(pos, n) == IF pos <= n THEN {pos} ELSE {}

\* ------------------------------------------------------------------------
\* Scheduler: executeTasksOptimally, runConcurrently, runSequentially
\* ------------------------------------------------------------------------

\* executeTasksOptimally lines 98-108: the body of a task's generator, and
\* with it task.fn, runs on the first next() only; later next() calls queue
\* behind the pending await
StartsBody_everyNext(genState) == genState \in {"start", "exec"}

StartsBody(genState) == genState = "start"

\* generator.next() on every active generator (lines 41-51). A generator that
\* has not run yet starts its body, which invokes task.fn synchronously.
\* g, r, f, st are the generator/request/function/start-order values before
\* the requests are issued; act is given as positions in the read list.
IssueRequests(act, g, r, f, st) ==
    LET R == ReadIdx(tasks)
        idxs == {R[p] : p \in act}
        newly == {i \in idxs : StartsBody(g[i])}
        order == LET S[k \in 0..Len(R)] ==
                       IF k = 0 THEN st
                       ELSE IF R[k] \in newly THEN Append(S[k-1], R[k]) ELSE S[k-1]
                 IN S[Len(R)]
    IN /\ gen' = [i \in DOMAIN g |-> IF i \in newly THEN "exec" ELSE g[i]]
       /\ reqs' = [i \in DOMAIN g |-> IF i \in idxs THEN r[i] + 1 ELSE r[i]]
       /\ cur' = [i \in DOMAIN g |-> i \in idxs]
       /\ fnState' = [i \in DOMAIN g |-> IF i \in newly THEN "running" ELSE f[i]]
       /\ fnStarts' = order

\* runSequentially: create and start the generators of the write positions ws
StartWrites(ws, g, r, f, st) ==
    LET W == WriteIdx(tasks)
        idxs == {W[p] : p \in ws}
        order == LET S[k \in 0..Len(W)] ==
                       IF k = 0 THEN st
                       ELSE IF W[k] \in idxs THEN Append(S[k-1], W[k]) ELSE S[k-1]
                 IN S[Len(W)]
    IN /\ gen' = [i \in DOMAIN g |-> IF i \in idxs THEN "exec" ELSE g[i]]
       /\ reqs' = [i \in DOMAIN g |-> IF i \in idxs THEN 1 ELSE r[i]]
       /\ cur' = [i \in DOMAIN g |-> FALSE]
       /\ fnState' = [i \in DOMAIN g |-> IF i \in idxs THEN "running" ELSE f[i]]
       /\ fnStarts' = order

\* executeTasksOptimally lines 129-135: the write phase begins (or the call ends)
BeginWritePhase(g, r, f, st) ==
    LET W == WriteIdx(tasks)
    IN /\ activeGenerators' = {}
       /\ IF Len(W) > 0
            THEN /\ spc' = "wrun"
                 /\ wpos' = 1
                 /\ StartWrites(WritesToStart(1, Len(W)), g, r, f, st)
            ELSE /\ spc' = "done"
                 /\ wpos' = 0
                 /\ gen' = g
                 /\ reqs' = r
                 /\ cur' = [i \in DOMAIN g |-> FALSE]
                 /\ fnState' = f
                 /\ fnStarts' = st

\* First next() on executeTasksOptimally (lines 92-127 up to the first await)
SchedStart ==
    LET R == ReadIdx(tasks)
    IN /\ spc = "idle"
       /\ out' = out
       /\ UNCHANGED <<tasks, maxConcurrency>>
       /\ IF Len(tasks) = 0
            THEN /\ spc' = "done"
                 /\ UNCHANGED <<gen, reqs, cur, activeGenerators, nextIndex, wpos, fnState, fnStarts>>
            ELSE IF Len(R) > 0
            THEN LET act == InitialActive(Len(R), maxConcurrency)
                     g0 == [i \in DOMAIN tasks |->
                              IF \E p \in act : R[p] = i THEN "start" ELSE "none"]
                 IN /\ nextIndex' = Min(maxConcurrency, Len(R))
                    /\ wpos' = 0
                    /\ IF ReadPhaseOver(act)
                         THEN BeginWritePhase(g0, reqs, fnState, fnStarts)
                         ELSE /\ activeGenerators' = act
                              /\ spc' = "race"
                              /\ IssueRequests(act, g0, reqs, fnState, fnStarts)
            ELSE /\ nextIndex' = 0
                 /\ BeginWritePhase(gen, reqs, fnState, fnStarts)

\* The generator at read position p answered the awaited race with done
\* (lines 68-76): it is removed, the next generator is created, and the loop
\* issues the next round of requests or ends.
WinDone(p, g, r, f) ==
    LET R == ReadIdx(tasks)
        more == nextIndex < Len(R)
        act1 == (activeGenerators \ {p}) \cup (IF more THEN {nextIndex + 1} ELSE {})
        g1 == [i \in DOMAIN g |-> IF more /\ i = R[nextIndex + 1] THEN "start" ELSE g[i]]
    IN /\ nextIndex' = IF more THEN nextIndex + 1 ELSE nextIndex
       /\ out' = out
       /\ IF ReadPhaseOver(act1)
            THEN BeginWritePhase(g1, r, f, fnStarts)
            ELSE /\ activeGenerators' = act1
                 /\ spc' = "race"
                 /\ wpos' = wpos
                 /\ IssueRequests(act1, g1, r, f, fnStarts)

\* Position of task i in the read list (0 when it is a write task)
ReadPos(i) ==
    LET R == ReadIdx(tasks)
    IN IF \E p \in DOMAIN R : R[p] = i THEN CHOOSE p \in DOMAIN R : R[p] = i ELSE 0

\* The value a task's wrapper generator yields (lines 100-108 / 111-119)
ResultOf(i, outcome) == [idx |-> i, toolUseId |-> tasks[i].toolUse.id, error |-> (outcome = "err")]

\* task.fn of a read task settles (resolves or rejects). Its generator yields
\* the value to the oldest queued request; when later requests are queued
\* behind it the generator is resumed at once and answers them with done.
SettleRead(i, outcome) ==
    /\ spc \in {"race", "ryield"}
    /\ i \in DOMAIN tasks
    /\ tasks[i].isReadOnly
    /\ fnState[i] = "running"
    /\ UNCHANGED <<tasks, maxConcurrency>>
    /\ LET f1 == [fnState EXCEPT ![i] = outcome]
           r1 == [reqs EXCEPT ![i] = 0]
       IN IF reqs[i] = 1
            THEN \* the only queued request receives the value
                 IF cur[i] /\ spc = "race"
                   THEN /\ out' = Append(out, ResultOf(i, outcome))
                        /\ spc' = "ryield"
                        /\ gen' = [gen EXCEPT ![i] = "yield"]
                        /\ reqs' = r1
                        /\ cur' = [j \in DOMAIN tasks |-> FALSE]
                        /\ fnState' = f1
                        /\ UNCHANGED <<activeGenerators, nextIndex, wpos, fnStarts>>
                   ELSE /\ gen' = [gen EXCEPT ![i] = "yield"]
                        /\ reqs' = r1
                        /\ cur' = [cur EXCEPT ![i] = FALSE]
                        /\ fnState' = f1
                        /\ UNCHANGED <<out, spc, activeGenerators, nextIndex, wpos, fnStarts>>
            ELSE \* the value goes to a request of an earlier race; the newest gets done
                 IF cur[i] /\ spc = "race"
                   THEN WinDone(ReadPos(i), [gen EXCEPT ![i] = "done"], r1, f1)
                   ELSE /\ gen' = [gen EXCEPT ![i] = "done"]
                        /\ reqs' = r1
                        /\ cur' = [cur EXCEPT ![i] = FALSE]
                        /\ fnState' = f1
                        /\ UNCHANGED <<out, spc, activeGenerators, nextIndex, wpos, fnStarts>>

\* A generator suspended at its yield (or already finished) answers the
\* queued request with done (lines 44-45, 68)
RespondDone(i) ==
    /\ spc = "race"
    /\ i \in DOMAIN tasks
    /\ gen[i] \in {"yield", "done"}
    /\ reqs[i] > 0
    /\ cur[i]
    /\ UNCHANGED <<tasks, maxConcurrency>>
    /\ WinDone(ReadPos(i), [gen EXCEPT ![i] = "done"], [reqs EXCEPT ![i] = 0], fnState)

\* The consumer's next() after a yielded read result: the while loop of
\* runConcurrently goes round (lines 39-51)
ResumeAfterRead ==
    /\ spc = "ryield"
    /\ spc' = "race"
    /\ IssueRequests(activeGenerators, gen, reqs, fnState, fnStarts)
    /\ UNCHANGED <<tasks, maxConcurrency, activeGenerators, nextIndex, wpos, out>>

\* task.fn of the running write task settles; runSequentially yields its value
SettleWrite(i, outcome) ==
    /\ spc = "wrun"
    /\ i \in DOMAIN tasks
    /\ ~tasks[i].isReadOnly
    /\ fnState[i] = "running"
    /\ fnState' = [fnState EXCEPT ![i] = outcome]
    /\ gen' = [gen EXCEPT ![i] = "yield"]
    /\ reqs' = [reqs EXCEPT ![i] = 0]
    /\ out' = Append(out, ResultOf(i, outcome))
    /\ spc' = IF i = WriteIdx(tasks)[wpos] THEN "wyield" ELSE spc
    /\ UNCHANGED <<tasks, maxConcurrency, cur, activeGenerators, nextIndex, wpos, fnStarts>>

\* The consumer's next() after a yielded write result: the generator ends
\* and runSequentially moves to the next one (lines 8-13)
ResumeAfterWrite ==
    LET W == WriteIdx(tasks)
        g1 == [gen EXCEPT ![W[wpos]] = "done"]
        ws == WritesToStart(wpos + 1, Len(W)) \ {p \in DOMAIN W : fnState[W[p]] # "idle"}
    IN /\ spc = "wyield"
       /\ wpos' = wpos + 1
       /\ IF wpos + 1 <= Len(W)
            THEN /\ spc' = "wrun"
                 /\ StartWrites(ws, g1, reqs, fnState, fnStarts)
            ELSE /\ spc' = "done"
                 /\ gen' = g1
                 /\ UNCHANGED <<reqs, cur, fnState, fnStarts>>
       /\ UNCHANGED <<tasks, maxConcurrency, activeGenerators, nextIndex, out>>

\* ------------------------------------------------------------------------
\* Tool registry (tools.js) and message helpers (utils/messages.js)
\* ------------------------------------------------------------------------
AvailableTools == {"viewFile", "listDirectory", "editFile"}

\* findToolByName: is a tool of that name registered
findToolByName(toolName) == toolName \in AvailableTools

\* isReadOnly() of the registered tools
ToolIsReadOnly(toolName) == toolName \in {"viewFile", "listDirectory"}

\* query.js line 287: isReadOnly of the task built for a request
TaskIsReadOnly(toolName) ==
    IF findToolByName(toolName) THEN ToolIsReadOnly(toolName) ELSE TRUE

\* Argument JSON is modelled as a sequence of tokens: "{", "}", " " (white
\* space) and pair tokens, each standing for one "key":value member. A member
\* whose value is a nested object is written "o{" ("options":{), then "x"
\* ("x":1) and "y" ("y":2) in some order, then "}". As a value it is one
\* token: "oxy" and "oyx" stand for "options":{"x":1,"y":2} and
\* "options":{"y":2,"x":1}, "ox", "oy" and "o" for the smaller objects.
PairTokens == {"fa", "fb", "cx"}

NestedTokens == {"oxy", "oyx"}

NestedValues == NestedTokens \cup {"o", "ox", "oy"}

KeyOf(tok) ==
    IF tok \in {"fa", "fb"} THEN "filePath"
    ELSE IF tok \in NestedValues THEN "options" ELSE "content"

\* order of the keys under Array.prototype.sort: "content" < "filePath" < "options"
KeyRank(tok) ==
    IF KeyOf(tok) = "content" THEN 1 ELSE IF KeyOf(tok) = "filePath" THEN 2 ELSE 3

\* String.prototype.trim
Trim(text) ==
    LET idx == {k \in DOMAIN text : text[k] # " "}
    IN IF idx = {} THEN <<>>
       ELSE SubSeq(text, CHOOSE k \in idx : \A l \in idx : k <= l,
                         CHOOSE k \in idx : \A l \in idx : l <= k)

\* the value of a nested object with the given members: keys in order of
\* first appearance
NestedValue(ms) ==
    LET hasX == \E k \in DOMAIN ms : ms[k] = "x"
        hasY == \E k \in DOMAIN ms : ms[k] = "y"
    IN IF hasX /\ hasY THEN (IF ms[1] = "x" THEN "oxy" ELSE "oyx")
       ELSE IF hasX THEN "ox" ELSE IF hasY THEN "oy" ELSE "o"

\* JSON.parse reading the text between the outer braces: ok is FALSE after a
\* token that cannot follow, open is TRUE inside a nested object, mem holds
\* the members read so far
ScanMembers(inner) ==
    LET F[k \in 0..Len(inner)] ==
          IF k = 0 THEN [ok |-> TRUE, open |-> FALSE, mem |-> <<>>, nested |-> <<>>]
          ELSE LET p == F[k-1]
                   tok == inner[k]
               IN IF ~p.ok \/ tok = " " THEN p
                  ELSE IF ~p.open
                    THEN IF tok \in PairTokens THEN [p EXCEPT !.mem = Append(@, tok)]
                         ELSE IF tok = "o{" THEN [p EXCEPT !.open = TRUE, !.nested = <<>>]
                         ELSE [p EXCEPT !.ok = FALSE]
                    ELSE IF tok \in {"x", "y"} THEN [p EXCEPT !.nested = Append(@, tok)]
                         ELSE IF tok = "}"
                           THEN [p EXCEPT !.open = FALSE, !.mem = Append(@, NestedValue(p.nested))]
                         ELSE [p EXCEPT !.ok = FALSE]
    IN F[Len(inner)]

\* JSON.parse succeeds on the text and gives an object
JSONValid(text) ==
    LET t == Trim(text)
    IN /\ Len(t) >= 2
       /\ t[1] = "{"
       /\ t[Len(t)] = "}"
       /\ LET s == ScanMembers(SubSeq(t, 2, Len(t) - 1)) IN s.ok /\ ~s.open

\* JSON.parse of a valid text: the members in order of first appearance of
\* their key, a repeated key keeping its last value
JSONParse(text) ==
    LET t == Trim(text)
        mem == ScanMembers(SubSeq(t, 2, Len(t) - 1)).mem
        firstOfKey(k) == \A j \in 1..(k-1) : KeyOf(mem[j]) # KeyOf(mem[k])
        lastWithKey(k) == CHOOSE j \in DOMAIN mem :
                             /\ KeyOf(mem[j]) = KeyOf(mem[k])
                             /\ \A l \in DOMAIN mem : KeyOf(mem[l]) = KeyOf(mem[k]) => l <= j
        F[k \in 0..Len(mem)] ==
            IF k = 0 THEN <<>>
            ELSE IF firstOfKey(k) THEN Append(F[k-1], mem[lastWithKey(k)]) ELSE F[k-1]
    IN F[Len(mem)]

\* query.js line 226: trimmed buffer starts with '{' and ends with '}'
LooksComplete(text) ==
    LET t == Trim(text)
    IN Len(t) > 0 /\ t[1] = "{" /\ t[Len(t)] = "}"

\* createToolSignature (part_005 lines 156-199): tool name plus the
\* JSON.stringify of the input with its top-level keys sorted
SortByKey(input) ==
    SelectSeq(input, LAMBDA t : KeyRank(t) = 1) \o SelectSeq(input, LAMBDA t : KeyRank(t) = 2)
        \o SelectSeq(input, LAMBDA t : KeyRank(t) = 3)

createToolSignature(toolName, toolInput) ==
    IF toolName = "" THEN [name |-> "unknown", body |-> <<"tool">>]
    ELSE IF toolInput = <<>> THEN [name |-> toolName, body |-> <<"empty-object">>]
    ELSE [name |-> toolName, body |-> SortByKey(toolInput)]

Block(type, id, name, input, isError) ==
    [type |-> type, id |-> id, name |-> name, input |-> input, isError |-> isError]

\* createUserMessage
createUserMessage == [role |-> "user", content |-> <<Block("text", 0, "", <<>>, FALSE)>>]

\* createToolResultMessage (part_005 lines 136-148)
createToolResultMessage(toolUseId, isError) ==
    [role |-> "user", content |-> <<Block("tool_result", toolUseId, "", <<>>, isError)>>]

\* query.js lines 304-313: the assistant message holding the tool_use blocks
ToolUseMessage_text(requests) ==
    [role |-> "assistant", content |-> <<Block("text", 0, "", <<>>, FALSE)>>]

ToolUseMessage(requests) ==
    [role |-> "assistant",
     content |-> [k \in DOMAIN requests |->
                    Block("tool_use", requests[k].id, requests[k].name, requests[k].input, FALSE)]]

Ev(type, id, isError) == [type |-> type, id |-> id, isError |-> isError]

\* query.js line 209: the skipped_duplicate_tool event (toolUseId, toolName);
\* input is the input of the toolUse the check of line 206 was applied to
EvSkipped(toolUse) ==
    [type |-> "skipped_duplicate_tool", id |-> toolUse.id, isError |-> FALSE,
     toolName |-> toolUse.name, input |-> toolUse.input]

\* ------------------------------------------------------------------------
\* toolExecutionTracker (query.js lines 13-120)
\* ------------------------------------------------------------------------
MAX_RECURSION_DEPTH == 5

WINDOW_MS == 60000

\* isDuplicate (lines 22-39)
isDuplicate(toolUse) ==
    IF toolUse.id = 0 \/ toolUse.name = "" THEN FALSE
    ELSE \/ toolUse.id \in toolIds
         \/ createToolSignature(toolUse.name, toolUse.input) \in toolSignatures

\* isDuplicateWithTimeWindow (lines 42-59): the value returned when the
\* table is tbl and Date.now() gives t
WindowHit(tbl, toolUse, t) ==
    LET signature == createToolSignature(toolUse.name, toolUse.input)
    IN /\ toolUse.name # ""
       /\ signature \in DOMAIN tbl
       /\ t - tbl[signature] < WINDOW_MS

isDuplicateWithTimeWindow(toolUse) == WindowHit(timeWindowedSignatures, toolUse, now)

\* isDuplicateWithTimeWindow: the table it leaves behind (line 57)
WindowTableAfterCheck(toolUse) ==
    LET signature == createToolSignature(toolUse.name, toolUse.input)
    IN IF toolUse.name = "" \/ isDuplicateWithTimeWindow(toolUse)
         THEN timeWindowedSignatures
         ELSE (signature :> now) @@ timeWindowedSignatures

\* query.js line 206: isDuplicate(toolUse) || isDuplicateWithTimeWindow(toolUse)
DuplicateCheck(toolUse) == isDuplicate(toolUse) \/ isDuplicateWithTimeWindow(toolUse)

\* the window table after line 206 (the second check runs only if the first is false)
WindowTableAfterDuplicateCheck(toolUse) ==
    IF isDuplicate(toolUse) THEN timeWindowedSignatures ELSE WindowTableAfterCheck(toolUse)

\* query.js line 141: the depth guard
DepthExceeded_off(depth) == FALSE

DepthExceeded(depth) == depth > MAX_RECURSION_DEPTH

\* query.js line 134: the tracker is reset only by the entry that finds depth 0
IsFirstEntry_always(depth) == TRUE

IsFirstEntry(depth) == depth = 0

\* decrementRecursionDepth (lines 85-89)
decrementRecursionDepth_none(depth) == depth

decrementRecursionDepth(depth) == IF depth > 0 THEN depth - 1 ELSE depth

\* query.js line 385: the frame that sees depth 0 after decrementing is the top-level one
IsTopLevelExit_always(depth) == TRUE

IsTopLevelExit(depth) == depth = 0

\* no response body is being decoded
DecoderIdle ==
    /\ stream = [recs |-> <<>>, trailer |-> <<>>]
    /\ rest = <<>>
    /\ buffer = <<>>
    /\ emitted = <<>>
    /\ dpc = "idle"

\* the remote service is not streaming a tool block
AsmIdle ==
    /\ argBlock = [id |-> 0, name |-> "", input |-> <<>>]
    /\ argText = <<>>
    /\ argRest = <<>>
    /\ argCuts = {}

\* no permission approved yet and no prompt on the screen (part_003 line 5)
PermIdle ==
    /\ approvedPermissions = {}
    /\ asking = {}

\* the input loop after main() has set it up (index.js lines 495-497)
ReplIdle ==
    /\ isAwaitingUserInput = TRUE
    /\ linesTyped = 0
    /\ lastLine = [kind |-> "", rejected |-> FALSE, inFlight |-> FALSE]
    /\ controller = 1
    /\ querySignal = 0
    /\ fired = {}

\* the iterative query() has not been called
IterIdle ==
    /\ iterPc = "idle"
    /\ iterEvents = <<>>
    /\ iterMessages = <<>>
    /\ iterCalls = 0
    /\ iterRequests = <<>>
    /\ iterPos = 0
    /\ isQueryComplete = FALSE

TrackerInit ==
    /\ recursionDepth = 0
    /\ toolIds = {}
    /\ toolSignatures = {}
    /\ timeWindowedSignatures = <<>>
    /\ contentBlockIds = {}

FrameInit ==
    /\ qpc = "idle"
    /\ frames = 0
    /\ messages = <<>>
    /\ updatedMessages = <<>>
    /\ toolUseRequests = <<>>
    /\ assistantResponseText = <<>>
    /\ currentToolInputJson = <<>>
    /\ currentToolUseId = 0
    /\ skippingDuplicateTool = FALSE
    /\ finalAssistantMessageStructure = <<>>

EnvInit ==
    /\ now = 0
    /\ frameCount = 0
    /\ aborted = FALSE
    /\ history = <<>>
    /\ turn = 0
    /\ events = <<>>
    /\ remoteCalls = 0
    /\ callLog = <<>>

\* task.fn outcomes: the wrapper of query.js lines 274-286 reports "not
\* found" for an unregistered tool; a registered tool's call() returns or throws
Outcomes(i) ==
    IF mode = "sched" \/ findToolByName(tasks[i].toolUse.name) THEN {"ok", "err"} ELSE {"err"}

\* ------------------------------------------------------------------------
\* query() (query.js lines 132-390)
\* ------------------------------------------------------------------------
QUERY_MAX_CONCURRENCY == 5

SeqMax(S) == IF S = {} THEN 0 ELSE CHOOSE m \in S : \A x \in S : x <= m

\* inputs the remote service may send, per specification
ToolNames == {"viewFile", "editFile", "unknownTool"}

StartInputs == {<<>>, <<"fa">>}

\* In SpecDeep the request offered in step k is fixed up to repetition: the
\* k-th of these (a signature not seen before) or the one of the step before
DeepRequests ==
    <<[name |-> "viewFile", input |-> <<>>], [name |-> "editFile", input |-> <<>>],
      [name |-> "viewFile", input |-> <<"fa">>], [name |-> "editFile", input |-> <<"fa">>],
      [name |-> "viewFile", input |-> <<"fb">>], [name |-> "editFile", input |-> <<"fb">>]>>

Offers ==
    IF mode = "deep"
      THEN {DeepRequests[k] : k \in {remoteCalls, remoteCalls - 1} \cap DOMAIN DeepRequests}
      ELSE IF mode = "dup" THEN [name : {"viewFile"}, input : StartInputs]
      ELSE IF mode \in {"asm", "blk"} THEN [name : {"viewFile", "editFile"}, input : StartInputs]
      ELSE IF mode = "repl" THEN [name : {"viewFile"}, input : {<<>>}]
      ELSE [name : ToolNames, input : StartInputs]

Fragments ==
    IF mode = "dup" THEN {<<"{", "fa", "}">>, <<"{", "fb", "}">>}
    ELSE {<<"{", "fa", "}">>, <<"{", "fa">>, <<"}">>, <<"{", "fb", "}">>}

BlockIds ==
    {SeqMax(contentBlockIds) + 1} \cup (IF mode \in {"turn", "blk"} THEN contentBlockIds ELSE {})

FrameBudget ==
    IF mode = "deep" THEN MaxFramesDeep ELSE IF mode = "asm" THEN MaxFramesAsm ELSE MaxFrames

NoSchedChange == UNCHANGED schedVars

SchedReset ==
    /\ spc' = "idle"
    /\ gen' = <<>>
    /\ reqs' = <<>>
    /\ cur' = <<>>
    /\ activeGenerators' = {}
    /\ nextIndex' = 0
    /\ wpos' = 0
    /\ fnState' = <<>>
    /\ fnStarts' = <<>>
    /\ out' = <<>>

\* Entry of query() up to the first remote call (lines 132-158). msgs is the
\* messages argument, evs the events yielded so far, rc the remote calls so far.
QEnter(msgs, evs, rc) ==
    LET fresh == IsFirstEntry(recursionDepth)            \* line 134
        depth == (IF fresh THEN 0 ELSE recursionDepth) + 1   \* line 138
    IN /\ toolIds' = IF fresh THEN {} ELSE toolIds
       /\ toolSignatures' = IF fresh THEN {} ELSE toolSignatures
       /\ contentBlockIds' = IF fresh THEN {} ELSE contentBlockIds
       /\ timeWindowedSignatures' = timeWindowedSignatures
       /\ toolUseRequests' = <<>>
       /\ assistantResponseText' = <<>>
       /\ currentToolInputJson' = <<>>
       /\ currentToolUseId' = 0
       /\ skippingDuplicateTool' = FALSE
       /\ finalAssistantMessageStructure' = <<>>
       /\ IF DepthExceeded(depth)
            THEN /\ events' = Append(evs, Ev("error", depth, TRUE))
                 /\ recursionDepth' = decrementRecursionDepth(depth)
                 /\ frames' = frames
                 /\ qpc' = "finally"
                 /\ messages' = messages
                 /\ remoteCalls' = rc
            ELSE /\ events' = Append(evs, Ev("status:sending", 0, FALSE))
                 /\ recursionDepth' = depth
                 /\ frames' = frames + 1
                 /\ qpc' = "fetch"
                 /\ messages' = msgs
                 /\ remoteCalls' = rc + 1

\* The caller starts a turn: handleUserInput pushes the user message and
\* calls query() (index.js lines 530-544)
TurnStart ==
    /\ turn' = turn + 1
    /\ history' = Append(history, createUserMessage)
    /\ callLog' = <<>>
    /\ updatedMessages' = <<>>
    /\ QEnter(Append(history, createUserMessage), <<>>, 0)
    /\ UNCHANGED <<now, frameCount>>
    /\ NoSchedChange

TopLevelCall ==
    /\ mode \in {"turn", "deep", "dup", "asm", "blk"}
    /\ qpc = "idle"
    /\ turn < (IF mode \in {"deep", "blk"} THEN 1 ELSE MaxTurns)
    /\ aborted' = FALSE
    /\ TurnStart
    /\ UNCHANGED modeVars

\* Date.now() advances while the remote call or its stream is awaited, or between turns
Tick ==
    /\ mode = "dup"
    /\ qpc \in {"fetch", "idle", "stream"}
    /\ turn > 0
    /\ now < MaxTicks * TickMs
    /\ now' = now + TickMs
    /\ UNCHANGED <<modeVars, trackerVars, frameVars, frameCount, aborted, history, turn, events,
                   remoteCalls, callLog>>
    /\ NoSchedChange

\* the abort signal given to query() fires
Abort ==
    /\ mode = "deep"
    /\ qpc \in {"fetch", "stream"}
    /\ ~aborted
    /\ aborted' = TRUE
    /\ UNCHANGED <<modeVars, trackerVars, frameVars, now, frameCount, history, turn, events,
                   remoteCalls, callLog>>
    /\ NoSchedChange

\* the catch block (lines 375-381): what it yields for an error of that name
CaughtEvents_swallowed(name) == <<>>

CaughtEvents(name) ==
    IF name = "AbortError" THEN <<Ev("status:aborted", 0, FALSE)>> ELSE <<Ev("error", 0, TRUE)>>

\* the catch block (lines 375-381) for an error that is not an AbortError
CatchError ==
    /\ events' = events \o CaughtEvents("Error")
    /\ qpc' = "finally"
    /\ UNCHANGED <<modeVars, trackerVars, frames, messages, updatedMessages, toolUseRequests,
                   assistantResponseText, currentToolInputJson, currentToolUseId,
                   skippingDuplicateTool, finalAssistantMessageStructure, frameCount,
                   now, aborted, history, turn, remoteCalls, callLog>>
    /\ NoSchedChange

\* queryClaude throws: fetch fails or the response is not ok (claude.js lines 41-56, 108-112)
FetchFails ==
    /\ qpc = "fetch"
    /\ ~aborted
    /\ CatchError

\* the response is ok and the stream is opened (claude.js lines 53-61)
FetchOk ==
    /\ qpc = "fetch"
    /\ ~aborted
    /\ qpc' = "stream"
    /\ UNCHANGED <<modeVars, trackerVars, frames, messages, updatedMessages, toolUseRequests,
                   assistantResponseText, currentToolInputJson, currentToolUseId,
                   skippingDuplicateTool, finalAssistantMessageStructure, envVars>>
    /\ NoSchedChange

\* reader.read() fails in mid-stream with an error that is not an AbortError
StreamThrows ==
    /\ qpc = "stream"
    /\ ~aborted
    /\ CatchError

\* trackExecution for every request (line 266, lines 62-75)
TrackAll(requests) ==
    LET sigs == {createToolSignature(requests[k].name, requests[k].input) : k \in DOMAIN requests}
    IN /\ toolIds' = toolIds \cup {requests[k].id : k \in DOMAIN requests}
       /\ toolSignatures' = toolSignatures \cup sigs
       /\ timeWindowedSignatures' = [s \in sigs |-> now] @@ timeWindowedSignatures

\* line 262: updatedMessages starts as a copy of the messages of this step
CopyMessages_latest(msgs) == <<msgs[Len(msgs)]>>

CopyMessages(msgs) == msgs

\* lines 259-315: the messages for the recursive call, a copy of the messages
\* of this step plus one assistant message with all tool_use blocks
StepHistory_perRequest(msgs, requests) ==
    msgs \o [k \in DOMAIN requests |-> ToolUseMessage(<<requests[k]>>)]

StepHistory(msgs, requests) == Append(msgs, ToolUseMessage(requests))

\* line 268: the signal that tools, and with them permission prompts, may run
AwaitingPermissions_none(requests) == <<>>

AwaitingPermissions(requests) == <<Ev("awaiting_permissions", 0, FALSE)>>

\* line 356: the signal that the tools of the step are done
PermissionsResolved_none(results) == <<>>

PermissionsResolved(results) == <<Ev("permissions_resolved", 0, FALSE)>>

\* text of the final response (lines 363-371): <<>> when there is none
FinalText ==
    IF finalAssistantMessageStructure # <<>> /\ finalAssistantMessageStructure[1].text # <<>>
      THEN finalAssistantMessageStructure[1].text
      ELSE assistantResponseText

\* The code after the stream loop (lines 257-373), up to the first next()
\* on executeTasksOptimally or to the end of the try block
AfterStream ==
    /\ UNCHANGED <<modeVars, recursionDepth, contentBlockIds, frames, messages, assistantResponseText,
                   currentToolInputJson, currentToolUseId, skippingDuplicateTool,
                   finalAssistantMessageStructure, frameCount, toolUseRequests,
                   now, aborted, history, turn, remoteCalls, callLog>>
    /\ IF Len(toolUseRequests) > 0
         THEN /\ TrackAll(toolUseRequests)
              /\ events' = events
                    \o <<Ev("status:executing", 0, FALSE)>> \o AwaitingPermissions(toolUseRequests)
                    \o [k \in DOMAIN toolUseRequests |-> Ev("tool_executing", toolUseRequests[k].id, FALSE)]
              /\ updatedMessages' = StepHistory(CopyMessages(messages), toolUseRequests)
              /\ tasks' = [k \in DOMAIN toolUseRequests |->
                              [toolUse |-> toolUseRequests[k],
                               isReadOnly |-> TaskIsReadOnly(toolUseRequests[k].name)]]
              /\ maxConcurrency' = QUERY_MAX_CONCURRENCY
              /\ spc' = "idle"
              /\ gen' = [k \in DOMAIN toolUseRequests |-> "none"]
              /\ reqs' = [k \in DOMAIN toolUseRequests |-> 0]
              /\ cur' = [k \in DOMAIN toolUseRequests |-> FALSE]
              /\ fnState' = [k \in DOMAIN toolUseRequests |-> "idle"]
              /\ UNCHANGED <<activeGenerators, nextIndex, wpos, fnStarts, out>>
              /\ qpc' = "tools"
         ELSE /\ events' = events
                    \o <<IF FinalText # <<>> THEN Ev("final_assistant_response", 0, FALSE)
                                             ELSE Ev("status:no_text", 0, FALSE),
                         Ev("status:completed", 0, FALSE)>>
              /\ qpc' = "finally"
              /\ UNCHANGED <<toolIds, toolSignatures, timeWindowedSignatures, updatedMessages>>
              /\ NoSchedChange

\* the remote stream ends (reader.read() gives done)
StreamEnds ==
    /\ qpc = "stream"
    /\ ~aborted
    /\ AfterStream

\* fetch or reader.read() rejects with an AbortError: queryClaude returns
\* silently (claude.js lines 104-107) and the stream loop simply ends
StreamAborted ==
    /\ qpc \in {"fetch", "stream"}
    /\ aborted
    /\ AfterStream

FrameGuard ==
    /\ qpc = "stream"
    /\ ~aborted
    /\ frameCount < FrameBudget

\* event.type === 'error' (lines 171-175)
FrameError ==
    /\ FrameGuard
    /\ frameCount' = frameCount + 1
    /\ events' = Append(events, Ev("error", 0, TRUE))
    /\ UNCHANGED <<modeVars, trackerVars, qpc, frames, messages, updatedMessages, toolUseRequests,
                   assistantResponseText, currentToolInputJson, currentToolUseId,
                   skippingDuplicateTool, finalAssistantMessageStructure,
                   now, aborted, history, turn, remoteCalls, callLog>>
    /\ NoSchedChange

\* message_start (lines 188-192)
FrameMessageStart ==
    /\ FrameGuard
    /\ frameCount' = frameCount + 1
    /\ assistantResponseText' = <<>>
    /\ toolUseRequests' = <<>>
    /\ finalAssistantMessageStructure' = <<>>
    /\ UNCHANGED <<modeVars, trackerVars, qpc, frames, messages, updatedMessages,
                   currentToolInputJson, currentToolUseId, skippingDuplicateTool, obsVars>>
    /\ NoSchedChange

\* lines 206-210: the duplicate branch leaves the request list as it is
AfterSkip_kept(requests, toolUse) == Append(requests, toolUse)

AfterSkip(requests, toolUse) == requests

\* query.js line 180: the block id has been seen in this turn
AlreadyProcessed_never(blockId) == FALSE

AlreadyProcessed(blockId) == blockId \in contentBlockIds

\* content_block_start of a tool_use block (lines 178-185, 194-215)
BlockStart(id, name, input) ==
    LET toolUse == [id |-> id, name |-> name, input |-> input]
    IN /\ FrameGuard
       /\ frameCount' = frameCount + 1
       /\ UNCHANGED <<recursionDepth, toolIds, toolSignatures, qpc, frames, messages,
                      updatedMessages, assistantResponseText, finalAssistantMessageStructure,
                      now, aborted, history, turn, remoteCalls, callLog>>
       /\ NoSchedChange
       /\ IF AlreadyProcessed(id)
            THEN UNCHANGED <<contentBlockIds, timeWindowedSignatures, toolUseRequests,
                             currentToolInputJson, currentToolUseId, skippingDuplicateTool, events>>
            ELSE /\ contentBlockIds' = contentBlockIds \cup {id}
                 /\ currentToolUseId' = id
                 /\ currentToolInputJson' = <<>>
                 /\ timeWindowedSignatures' = WindowTableAfterDuplicateCheck(toolUse)
                 /\ IF DuplicateCheck(toolUse)
                      THEN /\ skippingDuplicateTool' = TRUE
                           /\ events' = Append(events, EvSkipped(toolUse))
                           /\ toolUseRequests' = AfterSkip(toolUseRequests, toolUse)
                      ELSE /\ skippingDuplicateTool' = FALSE
                           /\ events' = events
                           /\ toolUseRequests' = Append(toolUseRequests, toolUse)

FrameBlockStart(id, name, input) == BlockStart(id, name, input) /\ UNCHANGED modeVars

\* content_block_delta with a text_delta (lines 218-220)
FrameTextDelta ==
    /\ FrameGuard
    /\ frameCount' = frameCount + 1
    /\ assistantResponseText' = Append(assistantResponseText, "t")
    /\ UNCHANGED <<modeVars, trackerVars, qpc, frames, messages, updatedMessages, toolUseRequests,
                   currentToolInputJson, currentToolUseId, skippingDuplicateTool,
                   finalAssistantMessageStructure, obsVars>>
    /\ NoSchedChange

\* line 223: currentToolInputJson += event.data.delta.partial_json
Accumulate_last(text, partial_json) == partial_json

Accumulate(text, partial_json) == text \o partial_json

\* content_block_delta with an input_json_delta (lines 221-234)
JsonDelta(partial_json) ==
    /\ FrameGuard
    /\ frameCount' = frameCount + 1
    /\ UNCHANGED <<trackerVars, qpc, frames, messages, updatedMessages,
                   assistantResponseText, currentToolUseId, skippingDuplicateTool,
                   finalAssistantMessageStructure, obsVars>>
    /\ NoSchedChange
    /\ IF currentToolUseId # 0 /\ ~skippingDuplicateTool
         THEN LET buf == Accumulate(currentToolInputJson, partial_json)
                  hit == {k \in DOMAIN toolUseRequests : toolUseRequests[k].id = currentToolUseId}
              IN /\ currentToolInputJson' = buf
                 /\ IF LooksComplete(buf) /\ JSONValid(buf) /\ hit # {}
                      THEN LET k == CHOOSE x \in hit : \A y \in hit : x <= y
                           IN toolUseRequests' =
                                [toolUseRequests EXCEPT ![k].input = JSONParse(buf)]
                      ELSE toolUseRequests' = toolUseRequests
         ELSE UNCHANGED <<currentToolInputJson, toolUseRequests>>

FrameJsonDelta(partial_json) == JsonDelta(partial_json) /\ UNCHANGED modeVars

\* content_block_stop (lines 237-242)
FrameBlockStop ==
    /\ FrameGuard
    /\ frameCount' = frameCount + 1
    /\ currentToolUseId' = 0
    /\ currentToolInputJson' = <<>>
    /\ skippingDuplicateTool' = FALSE
    /\ UNCHANGED <<modeVars, trackerVars, qpc, frames, messages, updatedMessages, toolUseRequests,
                   assistantResponseText, finalAssistantMessageStructure, obsVars>>
    /\ NoSchedChange

\* message_stop (lines 244-253)
FrameMessageStop ==
    /\ FrameGuard
    /\ frameCount' = frameCount + 1
    /\ finalAssistantMessageStructure' =
          <<[text |-> assistantResponseText, tool_uses |-> toolUseRequests]>>
    /\ events' = Append(events, Ev("final_assistant_message_structure", 0, FALSE))
    /\ UNCHANGED <<modeVars, trackerVars, qpc, frames, messages, updatedMessages, toolUseRequests,
                   assistantResponseText, currentToolInputJson, currentToolUseId,
                   skippingDuplicateTool, now, aborted, history, turn, remoteCalls, callLog>>
    /\ NoSchedChange

\* the remote service requests a tool
ToolRequested ==
    /\ Len(toolUseRequests) < MaxTools
    /\ mode # "deep" => remoteCalls <= MaxSteps
    /\ \E id \in BlockIds, o \in Offers : FrameBlockStart(id, o.name, o.input)

ArgumentsStreamed == \E f \in Fragments : FrameJsonDelta(f)

\* first next() of the for-await over executeTasksOptimally (line 319)
QuerySchedCall ==
    /\ mode \in {"turn", "deep", "dup", "blk", "repl"}
    /\ qpc = "tools"
    /\ SchedStart
    /\ UNCHANGED <<modeVars, queryVars>>

\* lines 348-352: the ToolResult message of a yielded result is pushed
WithToolResult_first(msgs, result) ==
    <<createToolResultMessage(result.toolUseId, result.error)>> \o msgs

WithToolResult(msgs, result) ==
    Append(msgs, createToolResultMessage(result.toolUseId, result.error))

\* body of the result loop (lines 320-352) for the result just yielded
ResultLoopBody ==
    LET result == out[Len(out)]
    IN /\ events' = Append(events, Ev("tool_result", result.toolUseId, result.error))
       /\ updatedMessages' = WithToolResult(updatedMessages, result)
       /\ UNCHANGED <<modeVars, trackerVars, qpc, frames, messages, toolUseRequests,
                      assistantResponseText, currentToolInputJson, currentToolUseId,
                      skippingDuplicateTool, finalAssistantMessageStructure, frameCount,
                      now, aborted, history, turn, remoteCalls, callLog>>

QueryResultAfterRead ==
    /\ mode \in {"turn", "deep", "dup", "blk", "repl"}
    /\ qpc = "tools"
    /\ ResumeAfterRead
    /\ ResultLoopBody

QueryResultAfterWrite ==
    /\ mode \in {"turn", "deep", "dup", "blk", "repl"}
    /\ qpc = "tools"
    /\ ResumeAfterWrite
    /\ ResultLoopBody

\* tool.call() invocations of the step being executed, in start order
StepCalls ==
    LET F[k \in 0..Len(fnStarts)] ==
          IF k = 0 THEN <<>>
          ELSE IF findToolByName(tasks[fnStarts[k]].toolUse.name)
                 THEN Append(F[k-1], [toolUse |-> tasks[fnStarts[k]].toolUse,
                                      step |-> remoteCalls, at |-> now])
                 ELSE F[k-1]
    IN F[Len(fnStarts)]

\* the scheduler is exhausted: permissions_resolved and the recursive call (lines 355-359)
Recurse ==
    /\ mode \in {"turn", "deep", "dup", "blk", "repl"}
    /\ qpc = "tools"
    /\ spc = "done"
    /\ callLog' = callLog \o StepCalls
    /\ QEnter(updatedMessages,
              events \o PermissionsResolved(out) \o <<Ev("status:sending_results", 0, FALSE)>>,
              remoteCalls)
    /\ tasks' = <<>>
    /\ maxConcurrency' = maxConcurrency
    /\ SchedReset
    /\ UNCHANGED <<modeVars, updatedMessages, now, frameCount, aborted, history, turn>>

\* createAssistantMessage (part_005 lines 103-105)
createAssistantMessage == [role |-> "assistant", content |-> <<Block("text", 0, "", <<>>, FALSE)>>]

\* handleUserInput's handling of the events of a turn (index.js lines 585-621):
\* the history after turn_complete, when evs are the events of the turn
\* before it and text is the content of its final_assistant_response
HistoryAfterTurn(hist, evs, text) ==
    LET currentError == \E k \in DOMAIN evs : evs[k].type = "error"
        finalSeen == \E k \in DOMAIN evs : evs[k].type = "final_assistant_response"
        assistantMessageContent == IF finalSeen THEN text ELSE <<>>
        finalContentProcessed == finalSeen
    IN IF ~currentError /\ assistantMessageContent # <<>> /\ ~finalContentProcessed
         THEN Append(hist, createAssistantMessage)
         ELSE hist

\* the finally block of the innermost frame (lines 382-389), and the caller's
\* handling of turn_complete
FrameExit ==
    LET depth == decrementRecursionDepth(recursionDepth)
    IN /\ qpc = "finally"
       /\ recursionDepth' = depth
       /\ events' = IF IsTopLevelExit(depth)
                      THEN Append(events, Ev("turn_complete", frames, FALSE))
                      ELSE events
       /\ history' = IF IsTopLevelExit(depth) THEN HistoryAfterTurn(history, events, FinalText)
                                               ELSE history
       /\ frames' = frames - 1
       /\ qpc' = IF frames - 1 = 0 THEN "idle" ELSE "finally"
       /\ UNCHANGED <<toolIds, toolSignatures, timeWindowedSignatures, contentBlockIds,
                      messages, updatedMessages, toolUseRequests, assistantResponseText,
                      currentToolInputJson, currentToolUseId, skippingDuplicateTool,
                      finalAssistantMessageStructure, frameCount,
                      now, aborted, turn, remoteCalls, callLog>>
       /\ NoSchedChange

QFinally == FrameExit /\ UNCHANGED modeVars

ProgramIdle(m) ==
    /\ mode = m
    /\ tasks = <<>>
    /\ maxConcurrency = QUERY_MAX_CONCURRENCY
    /\ spc = "idle"
    /\ gen = <<>>
    /\ reqs = <<>>
    /\ cur = <<>>
    /\ activeGenerators = {}
    /\ nextIndex = 0
    /\ wpos = 0
    /\ fnState = <<>>
    /\ fnStarts = <<>>
    /\ out = <<>>
    /\ TrackerInit
    /\ FrameInit
    /\ EnvInit
    /\ AsmIdle
    /\ PermIdle
    /\ ReplIdle
    /\ IterIdle

InitQuery(m) == ProgramIdle(m) /\ DecoderIdle

\* ------------------------------------------------------------------------
\* Scheduler-only specification: executeTasksOptimally called directly with
\* up to MaxTasks tasks and a concurrency bound in 1..MaxConc, consumed by a
\* for-await loop
\* ------------------------------------------------------------------------
TaskLists ==
    UNION {[1..n -> BOOLEAN] : n \in 0..MaxTasks}

MkTasks(ro) ==
    [i \in DOMAIN ro |->
        [toolUse |-> [id |-> i, name |-> IF ro[i] THEN "viewFile" ELSE "editFile", input |-> <<>>],
         isReadOnly |-> ro[i]]]

InitSched ==
    /\ mode = "sched"
    /\ \E ro \in TaskLists : tasks = MkTasks(ro)
    /\ maxConcurrency \in 1..MaxConc
    /\ spc = "idle"
    /\ gen = [i \in DOMAIN tasks |-> "none"]
    /\ reqs = [i \in DOMAIN tasks |-> 0]
    /\ cur = [i \in DOMAIN tasks |-> FALSE]
    /\ activeGenerators = {}
    /\ nextIndex = 0
    /\ wpos = 0
    /\ fnState = [i \in DOMAIN tasks |-> "idle"]
    /\ fnStarts = <<>>
    /\ out = <<>>
    /\ TrackerInit
    /\ FrameInit
    /\ EnvInit
    /\ DecoderIdle
    /\ AsmIdle
    /\ PermIdle
    /\ ReplIdle
    /\ IterIdle

SchedCall == mode = "sched" /\ SchedStart /\ UNCHANGED <<modeVars, queryVars>>

ReadTaskSettles ==
    \E i \in DOMAIN tasks : \E o \in Outcomes(i) : SettleRead(i, o) /\ UNCHANGED <<modeVars, queryVars>>

ReadGeneratorDone == \E i \in DOMAIN tasks : RespondDone(i) /\ UNCHANGED <<modeVars, queryVars>>

WriteTaskSettles ==
    \E i \in DOMAIN tasks : \E o \in Outcomes(i) : SettleWrite(i, o) /\ UNCHANGED <<modeVars, queryVars>>

ConsumerNextAfterRead == mode = "sched" /\ ResumeAfterRead /\ UNCHANGED <<modeVars, queryVars>>

ConsumerNextAfterWrite == mode = "sched" /\ ResumeAfterWrite /\ UNCHANGED <<modeVars, queryVars>>

NextSched ==
    \/ SchedCall
    \/ ReadTaskSettles
    \/ ReadGeneratorDone
    \/ WriteTaskSettles
    \/ ConsumerNextAfterRead
    \/ ConsumerNextAfterWrite

SpecSched == InitSched /\ [][NextSched]_vars

\* ------------------------------------------------------------------------
\* Specifications of the orchestrator
\* ------------------------------------------------------------------------
\* One turn after another, each with few steps and richly varied responses
Init == InitQuery("turn")

Next ==
    \/ TopLevelCall
    \/ FetchFails
    \/ FetchOk
    \/ StreamThrows
    \/ StreamEnds
    \/ FrameError
    \/ FrameMessageStart
    \/ ToolRequested
    \/ FrameTextDelta
    \/ ArgumentsStreamed
    \/ FrameBlockStop
    \/ FrameMessageStop
    \/ QuerySchedCall
    \/ ReadTaskSettles
    \/ ReadGeneratorDone
    \/ WriteTaskSettles
    \/ QueryResultAfterRead
    \/ QueryResultAfterWrite
    \/ Recurse
    \/ QFinally

Spec == Init /\ [][Next]_vars

\* A single turn whose responses each request tools, down to the depth guard
InitDeep == InitQuery("deep")

NextDeep ==
    \/ TopLevelCall
    \/ Abort
    \/ FetchFails
    \/ FetchOk
    \/ StreamThrows
    \/ StreamEnds
    \/ StreamAborted
    \/ FrameError
    \/ ToolRequested
    \/ FrameTextDelta
    \/ QuerySchedCall
    \/ ReadTaskSettles
    \/ ReadGeneratorDone
    \/ WriteTaskSettles
    \/ QueryResultAfterRead
    \/ QueryResultAfterWrite
    \/ Recurse
    \/ QFinally

SpecDeep == InitDeep /\ [][NextDeep]_vars

\* Turns that request the same tool again and again while the clock advances
InitDup == InitQuery("dup")

NextDup ==
    \/ TopLevelCall
    \/ Tick
    \/ FetchOk
    \/ StreamEnds
    \/ ToolRequested
    \/ ArgumentsStreamed
    \/ FrameBlockStop
    \/ QuerySchedCall
    \/ ReadTaskSettles
    \/ ReadGeneratorDone
    \/ QueryResultAfterRead
    \/ Recurse
    \/ QFinally

SpecDup == InitDup /\ [][NextDup]_vars


\* ------------------------------------------------------------------------
\* Properties of the scheduler
\* ------------------------------------------------------------------------
Settled(i) == fnState[i] \in {"ok", "err"}

InFlight(i) == fnState[i] = "running"

TimesYielded(i) == Cardinality({k \in DOMAIN out : out[k].idx = i})

\* C3: when executeTasksOptimally has finished, the result of every input
\* task has been yielded exactly once (N tasks in, N results out).
C3_EveryResultOnce ==
    spc = "done" => \A i \in DOMAIN tasks : TimesYielded(i) = 1

\* C6: never more than maxConcurrency read-only task functions are in flight.
C6_ReadsBounded ==
    Cardinality({i \in DOMAIN tasks : tasks[i].isReadOnly /\ InFlight(i)}) <= maxConcurrency

C6_Witness ==
    /\ Len(ReadIdx(tasks)) > maxConcurrency
    /\ Cardinality({i \in DOMAIN tasks : tasks[i].isReadOnly /\ InFlight(i)}) = maxConcurrency
    /\ \E i \in DOMAIN tasks : tasks[i].isReadOnly /\ Settled(i)

\* C7: a write task's function is not started before every read-only task's
\* function has settled.
C7_WritesAfterReads ==
    \A w \in DOMAIN tasks : (~tasks[w].isReadOnly /\ fnState[w] # "idle") =>
            \A r \in DOMAIN tasks : tasks[r].isReadOnly => Settled(r)

C7_Witness ==
    /\ Len(ReadIdx(tasks)) >= 2
    /\ \E w \in DOMAIN tasks : ~tasks[w].isReadOnly /\ InFlight(w)
    /\ \E k \in DOMAIN fnStarts : k > 1 /\ ~tasks[fnStarts[k]].isReadOnly
                                   /\ fnStarts[k] < fnStarts[k-1]

\* C8: write tasks run one at a time, each started only after the previous
\* write (in request order) has settled.
C8_WritesSequential ==
    \A w1, w2 \in DOMAIN tasks :
            (~tasks[w1].isReadOnly /\ ~tasks[w2].isReadOnly /\ w1 < w2 /\ fnState[w2] # "idle")
                => Settled(w1)

C8_Witness ==
    /\ Len(WriteIdx(tasks)) >= 2
    /\ \A w \in DOMAIN tasks : ~tasks[w].isReadOnly => Settled(w)
    /\ spc = "done"

\* ------------------------------------------------------------------------
\* Properties of query()
\* ------------------------------------------------------------------------
CountEv(type) == Cardinality({k \in DOMAIN events : events[k].type = type})

\* the error event of the depth guard (line 143) carries the depth reached
GuardTripped == \E k \in DOMAIN events : events[k].type = "error" /\ events[k].id > 0

\* C1: turn_complete is emitted exactly once per top-level call, as the last
\* event, by the top-level frame, when the depth counter is back at 0; no
\* recursive frame emits it.
C1_TurnCompleteOnce ==
    /\ \A k \in DOMAIN events :
          events[k].type = "turn_complete" => (events[k].id = 1 /\ k = Len(events))
    /\ (qpc = "idle" /\ turn > 0) => (CountEv("turn_complete") = 1 /\ recursionDepth = 0)
    /\ qpc # "idle" => CountEv("turn_complete") = 0

C1_Witness ==
    /\ qpc = "idle"
    /\ GuardTripped
    /\ CountEv("turn_complete") = 1

\* C2: the sixth nested entry of query() yields the depth-exceeded error
\* without a remote call and nothing calls the remote service afterwards:
\* at most MAX_RECURSION_DEPTH remote calls are made in a turn.
C2_DepthBound ==
    /\ remoteCalls <= MAX_RECURSION_DEPTH
    /\ frames <= MAX_RECURSION_DEPTH
    /\ GuardTripped => (qpc \in {"finally", "idle"} /\ remoteCalls = MAX_RECURSION_DEPTH)

C2_Witness ==
    /\ GuardTripped
    /\ qpc = "idle"
    /\ remoteCalls = MAX_RECURSION_DEPTH

LastAssistant(msgs) ==
    CHOOSE a \in DOMAIN msgs :
        msgs[a].role = "assistant" /\ \A j \in DOMAIN msgs : msgs[j].role = "assistant" => j <= a

ResultsFor(msgs, a, id) ==
    {k \in (a+1)..Len(msgs) :
        msgs[k].role = "user" /\ Len(msgs[k].content) = 1
        /\ msgs[k].content[1].type = "tool_result" /\ msgs[k].content[1].id = id}

\* C4: the history handed to the recursive remote call holds, for every
\* ToolUse block of the step's assistant message, exactly one user message
\* with the matching ToolResult block.
C4_OneResultPerToolUse ==
    (qpc = "fetch" /\ frames >= 2) =>
        LET a == LastAssistant(messages)
        IN \A c \in DOMAIN messages[a].content :
              Cardinality(ResultsFor(messages, a, messages[a].content[c].id)) = 1

ToolResultsMatched(msgs) ==
    \A k \in DOMAIN msgs : \A b \in DOMAIN msgs[k].content :
        msgs[k].content[b].type = "tool_result" =>
            \E a \in 1..(k-1) :
                /\ msgs[a].role = "assistant"
                /\ \A j \in (a+1)..(k-1) : msgs[j].role # "assistant"
                /\ \E c \in DOMAIN msgs[a].content :
                      /\ msgs[a].content[c].type = "tool_use"
                      /\ msgs[a].content[c].id = msgs[k].content[b].id

\* C5: every ToolResult block of a history (passed to the remote service or
\* under construction) has a ToolUse block of the same id in the nearest
\* preceding assistant message.
C5_ResultHasToolUse ==
    ToolResultsMatched(messages) /\ ToolResultsMatched(updatedMessages)

C5_Witness ==
    /\ qpc = "fetch"
    /\ remoteCalls = 3
    /\ Cardinality({k \in DOMAIN messages : messages[k].content[1].type = "tool_result"}) >= 2

\* C9: when the tools of a step have run, every task has settled and every
\* task whose tool threw is reported by a tool_result event with isError.
C9_ToolFailureReported ==
    (qpc = "tools" /\ spc = "done") =>
        \A i \in DOMAIN tasks :
            /\ Settled(i)
            /\ fnState[i] = "err" =>
                  \E k \in DOMAIN events :
                      /\ events[k].type = "tool_result"
                      /\ events[k].id = tasks[i].toolUse.id
                      /\ events[k].isError

\* tool.call() invocations of the turn so far
AllCalls == callLog \o (IF qpc = "tools" THEN StepCalls ELSE <<>>)

\* C10: a tool is not called in a later step of the turn with the name and
\* arguments it was called with in an earlier step less than WINDOW_MS before.
C10_NoSecondCall ==
    \A i, j \in DOMAIN AllCalls :
        ~ /\ AllCalls[i].step < AllCalls[j].step
          /\ AllCalls[i].toolUse.name = AllCalls[j].toolUse.name
          /\ AllCalls[i].toolUse.input = AllCalls[j].toolUse.input
          /\ AllCalls[j].at - AllCalls[i].at < WINDOW_MS

\* signatures of the requests accepted so far in this turn, with the
\* arguments they have now: recorded by trackExecution in an earlier step or
\* collected in the current response
AcceptedSignatures ==
    toolSignatures \cup
    {createToolSignature(toolUseRequests[k].name, toolUseRequests[k].input) :
        k \in DOMAIN toolUseRequests}

\* C11: a request is suppressed as a duplicate only if its id was recorded in
\* this turn or a request accepted in this turn has its content signature
\* (same tool name and same arguments).
C11_SuppressedOnlyIfRecorded ==
    (skippingDuplicateTool /\ events # <<>>
        /\ events[Len(events)].type = "skipped_duplicate_tool"
        /\ events[Len(events)].id = currentToolUseId) =>
        LET s == events[Len(events)]
        IN \/ s.id \in toolIds
           \/ createToolSignature(s.toolName, s.input) \in AcceptedSignatures

\* C12: the first request of a new turn is never suppressed: nothing has been
\* recorded or accepted in the turn, so only an entry left by an earlier turn
\* could make it a duplicate.
C12_NoCrossTurnSuppression ==
    ~ /\ turn >= 2
      /\ skippingDuplicateTool
      /\ toolIds = {}
      /\ toolUseRequests = <<>>
      /\ CountEv("skipped_duplicate_tool") = 1

\* requests the duplicate check may be asked about
CheckRequests ==
    [id : 1..(SeqMax(contentBlockIds) + 1), name : {"viewFile", "editFile"},
     input : {<<>>, <<"fa">>, <<"fb">>}]

\* the check of line 206 applied again, right after a first application to
\* the same request (no trackExecution and no clock advance in between)
SecondDuplicateCheck(toolUse) ==
    isDuplicate(toolUse) \/ WindowHit(WindowTableAfterDuplicateCheck(toolUse), toolUse, now)

\* C13: isDuplicate(req) || isDuplicateWithTimeWindow(req) applied twice to
\* the same request with no trackExecution in between returns the same
\* result both times (in every state in which the orchestrator may apply it).
C13_CheckIdempotent ==
    qpc = "stream" =>
        \A req \in CheckRequests : DuplicateCheck(req) = SecondDuplicateCheck(req)

\* ------------------------------------------------------------------------
\* Signature specification: trackExecution records one request, and a second
\* request is compared with it by signature
\* ------------------------------------------------------------------------
\* argument objects: members with pairwise different keys, in any key order
ArgObjects ==
    {o \in UNION {[1..n -> PairTokens \cup NestedTokens] : n \in 0..MaxMembers} :
        \A i, j \in DOMAIN o : i # j => KeyOf(o[i]) # KeyOf(o[j])}

InitSig == InitQuery("sig")

\* a request is handed over for comparison
SigRequest ==
    /\ mode = "sig"
    /\ Len(toolUseRequests) < 2
    /\ \E name \in {"viewFile", "editFile"}, input \in ArgObjects :
          toolUseRequests' = Append(toolUseRequests,
              [id |-> Len(toolUseRequests) + 1, name |-> name, input |-> input])
    /\ UNCHANGED <<modeVars, schedVars, trackerVars, qpc, frames, messages, updatedMessages,
                   assistantResponseText, currentToolInputJson, currentToolUseId,
                   skippingDuplicateTool, finalAssistantMessageStructure, envVars>>

\* trackExecution (lines 62-75) of the first request
SigTrack ==
    /\ mode = "sig"
    /\ Len(toolUseRequests) = 2
    /\ toolIds = {}
    /\ TrackAll(<<toolUseRequests[1]>>)
    /\ UNCHANGED <<modeVars, schedVars, recursionDepth, contentBlockIds, frameVars, envVars>>

NextSig == SigRequest \/ SigTrack

SpecSig == InitSig /\ [][NextSig]_vars

\* the same members up to the order of keys, nested keys included
Canonical(tok) == IF tok = "oyx" THEN "oxy" ELSE tok

SameContent(a, b) == {Canonical(a[i]) : i \in DOMAIN a} = {Canonical(b[i]) : i \in DOMAIN b}

\* C14: two requests get the same signature exactly when they have the same
\* tool name and argument objects that are equal up to the order of their
\* keys, keys of nested objects included.
C14_SignatureOrderIndependent ==
    (mode = "sig" /\ toolIds # {}) =>
        LET a == toolUseRequests[1]
            b == toolUseRequests[2]
        IN (a.name = b.name /\ SameContent(a.input, b.input))
              <=> (createToolSignature(b.name, b.input) \in toolSignatures)

\* C15: the tracker tables are emptied by the entry of a top-level call and
\* by nothing else: within a turn every recorded id, signature and content
\* block id stays in its table.
C15_TablesKeptWithinTurn ==
    [][IF turn' # turn
         THEN toolIds' = {} /\ toolSignatures' = {} /\ contentBlockIds' = {}
         ELSE /\ toolIds \subseteq toolIds'
              /\ toolSignatures \subseteq toolSignatures'
              /\ contentBlockIds \subseteq contentBlockIds']_vars

C15_Witness ==
    /\ turn = 2
    /\ frames >= 2
    /\ qpc = "stream"
    /\ toolIds # {}
    /\ toolSignatures # {}
    /\ callLog # <<>>
    /\ \A k \in DOMAIN callLog : callLog[k].toolUse.id \in toolIds /\ callLog[k].toolUse.id \in contentBlockIds

\* C16: recursionDepth equals the number of active query() frames, stays
\* within 0..MAX_RECURSION_DEPTH + 1 (the refused entry reports the depth it
\* reached) and is 0 whenever no top-level call is running.
C16_DepthCountsFrames ==
    /\ recursionDepth = frames
    /\ recursionDepth \in 0..(MAX_RECURSION_DEPTH + 1)
    /\ \A k \in DOMAIN events :
          (events[k].type = "error" /\ events[k].id > 0) => events[k].id = MAX_RECURSION_DEPTH + 1
    /\ qpc = "idle" => recursionDepth = 0

C16_Witness ==
    /\ qpc = "finally"
    /\ GuardTripped
    /\ recursionDepth = MAX_RECURSION_DEPTH
    /\ frames = MAX_RECURSION_DEPTH

\* ------------------------------------------------------------------------
\* queryClaude's decoder of server-sent events (claude.js lines 59-101)
\* ------------------------------------------------------------------------
\* The body is a sequence of characters: "e" stands for the text "event: ",
\* "d" for "data: ", "n" for a line feed, "t" and "u" for two event type
\* names, "j" for a JSON text and "x" for a text JSON.parse rejects.
RecordKinds == {"good_t", "good_u", "bad", "nodata", "noevent"}

\* the text of a record, blank-line terminator included
RecordText(kind) ==
    CASE kind = "good_t"  -> <<"e", "t", "n", "d", "j", "n", "n">>
      [] kind = "good_u"  -> <<"e", "u", "n", "d", "j", "n", "n">>
      [] kind = "bad"     -> <<"e", "t", "n", "d", "x", "n", "n">>
      [] kind = "nodata"  -> <<"e", "t", "n", "n">>
      [] kind = "noevent" -> <<"d", "j", "n", "n">>

\* what may follow the last terminated record: nothing, or a record cut off
\* in the middle of its terminator
Trailers == {<<>>, <<"e", "u", "n", "d", "j", "n">>}

\* the characters of a logical record stream
StreamText(recs, trailer) ==
    LET F[k \in 0..Len(recs)] ==
          IF k = 0 THEN <<>> ELSE F[k-1] \o RecordText(recs[k])
    IN F[Len(recs)] \o trailer

\* buffer.indexOf('\n\n') (lines 72, 93): 0 stands for -1
Boundary(buf) ==
    LET hits == {i \in 1..(Len(buf) - 1) : buf[i] = "n" /\ buf[i+1] = "n"}
    IN IF hits = {} THEN 0 ELSE CHOOSE i \in hits : \A j \in hits : i <= j

\* message.split('\n') (line 78)
SplitLines(msg) ==
    LET F[k \in 0..Len(msg)] ==
          IF k = 0 THEN <<<<>>>>
          ELSE IF msg[k] = "n" THEN Append(F[k-1], <<>>)
          ELSE [F[k-1] EXCEPT ![Len(F[k-1])] = Append(@, msg[k])]
    IN F[Len(msg)]

\* lines 84-90: JSON.parse(data) gives a frame, or the record is dropped
ParseOutcome_strict(data) == IF data = <<"j">> THEN "frame" ELSE "throw"

ParseOutcome(data) == IF data = <<"j">> THEN "frame" ELSE "drop"

\* lines 77-92 for one message: "frame" with the frame, "drop" or "throw"
ProcessMessage(msg) ==
    LET lines == SplitLines(msg)
        dataIdx == {k \in DOMAIN lines : lines[k] # <<>> /\ lines[k][1] = "d"}
        dataLine == lines[CHOOSE k \in dataIdx : \A l \in dataIdx : k <= l]
        data == Tail(dataLine)
    IN IF msg = <<>> \/ msg[1] # "e" \/ dataIdx = {}
         THEN [outcome |-> "drop", frame |-> <<>>]
         ELSE [outcome |-> ParseOutcome(data),
               frame |-> <<[type |-> Tail(lines[1]), data |-> data]>>]

\* the inner while loop (lines 72-94) run on the buffer buf
RECURSIVE Drain(_)
Drain(buf) ==
    LET b == Boundary(buf)
    IN IF b = 0 THEN [buffer |-> buf, frames |-> <<>>, threw |-> FALSE]
       ELSE LET m == ProcessMessage(SubSeq(buf, 1, b - 1))
                after == SubSeq(buf, b + 2, Len(buf))
            IN IF m.outcome = "throw"
                 THEN [buffer |-> after, frames |-> <<>>, threw |-> TRUE]
                 ELSE LET r == Drain(after)
                      IN [buffer |-> r.buffer,
                          frames |-> (IF m.outcome = "frame" THEN m.frame ELSE <<>>) \o r.frames,
                          threw |-> r.threw]

\* line 69: buffer += decoder.decode(value, { stream: true })
Carry_lost(buf, chunk) == chunk

Carry(buf, chunk) == buf \o chunk

\* lines 97-101: what is emitted for the leftover buffer at the end of input
Leftover_flushed(buf) == Drain(buf \o <<"n", "n">>).frames

Leftover(buf) == <<>>

\* the logical record streams a response body may carry
Streams ==
    [recs : UNION {[1..n -> RecordKinds] : n \in 0..MaxRecords}, trailer : Trailers]

\* the response arrives (line 59): nothing read yet
InitSse ==
    /\ ProgramIdle("sse")
    /\ stream \in Streams
    /\ rest = StreamText(stream.recs, stream.trailer)
    /\ buffer = <<>>
    /\ emitted = <<>>
    /\ dpc = "reading"

\* reader.read() delivers the next n characters (lines 64-94)
SseRead(n) ==
    /\ mode = "sse"
    /\ dpc = "reading"
    /\ n \in 0..Len(rest)
    /\ LET r == Drain(Carry(buffer, SubSeq(rest, 1, n)))
       IN /\ buffer' = r.buffer
          /\ emitted' = emitted \o r.frames
          /\ dpc' = IF r.threw THEN "threw" ELSE "reading"
    /\ rest' = SubSeq(rest, n + 1, Len(rest))
    /\ UNCHANGED <<mode, asmVars, permVars, replVars, iterVars, stream, schedVars, queryVars>>

\* reader.read() reports done (lines 65-67), then lines 97-101
SseEnd ==
    /\ mode = "sse"
    /\ dpc = "reading"
    /\ rest = <<>>
    /\ emitted' = emitted \o Leftover(buffer)
    /\ dpc' = "done"
    /\ UNCHANGED <<mode, asmVars, permVars, replVars, iterVars, stream, rest, buffer, schedVars, queryVars>>

NextSse == (\E n \in 0..Len(rest) : SseRead(n)) \/ SseEnd

SpecSse == InitSse /\ [][NextSse]_vars

\* the characters read so far
Delivered ==
    LET text == StreamText(stream.recs, stream.trailer)
    IN SubSeq(text, 1, Len(text) - Len(rest))

\* C17: whatever the chunk boundaries, the frames emitted so far and the
\* buffer are those of reading the same characters in one chunk, so the frame
\* sequence of a whole stream does not depend on its chunking
C17_ChunkingIndependent ==
    (mode = "sse" /\ dpc # "threw") =>
        /\ emitted = Drain(Delivered).frames
        /\ buffer = Drain(Delivered).buffer

\* a record was cut inside its blank-line terminator after a frame was emitted,
\* and the stream was read to its end in more than one chunk
C17_Witness ==
    /\ mode = "sse"
    /\ dpc = "reading"
    /\ rest # <<>>
    /\ emitted # <<>>
    /\ buffer # <<>>
    /\ buffer[Len(buffer)] = "n"
    /\ rest[1] = "n"

\* the frame a well-formed record stands for
FrameOf(kind) ==
    [type |-> IF kind = "good_t" THEN <<"t">> ELSE <<"u">>, data |-> <<"j">>]

\* the frames of the well-formed records among the first k records
ExpectedFrames(recs, k) ==
    LET F[i \in 0..k] ==
          IF i = 0 THEN <<>>
          ELSE IF recs[i] \in {"good_t", "good_u"} THEN Append(F[i-1], FrameOf(recs[i]))
          ELSE F[i-1]
    IN F[k]

\* C18: a record whose data line is not valid JSON is dropped without a frame
\* and without an error; the well-formed records before and after it are
\* still emitted, in order
C18_BadJsonDropped ==
    mode = "sse" =>
        /\ dpc # "threw"
        /\ dpc = "done" => emitted = ExpectedFrames(stream.recs, Len(stream.recs))

\* a stream with a malformed record between two well-formed ones was read to
\* its end
C18_Witness ==
    /\ mode = "sse"
    /\ dpc = "done"
    /\ stream.recs = <<"good_t", "bad", "good_u">>
    /\ emitted = <<FrameOf("good_t"), FrameOf("good_u")>>

\* how many records have been read up to and including their terminator
CompletedRecords ==
    Cardinality({k \in DOMAIN stream.recs :
        Len(StreamText(SubSeq(stream.recs, 1, k), <<>>)) <= Len(Delivered)})

\* C19: frames are emitted only for records whose terminating blank line has
\* been read; text left over at the end of input gives no frame and the
\* stream ends normally
C19_OnlyTerminatedRecords ==
    (mode = "sse" /\ dpc \in {"reading", "done"}) =>
        /\ emitted = ExpectedFrames(stream.recs, CompletedRecords)
        /\ dpc = "done" => buffer = stream.trailer

\* the input ended with an unterminated record in the buffer, after a frame
C19_Witness ==
    /\ mode = "sse"
    /\ dpc = "done"
    /\ stream.trailer # <<>>
    /\ buffer = stream.trailer
    /\ emitted # <<>>

\* ------------------------------------------------------------------------
\* Assembly of tool arguments from input_json_delta fragments (query.js
\* lines 194-242): the remote service streams a tool block whose argument
\* text it cuts into fragments as it likes
\* ------------------------------------------------------------------------
\* argument texts: objects, flat and nested, with a repeated key, with white
\* space around them; texts that never become valid; texts with a valid prefix
ArgumentTexts ==
    {<<"{", "}">>,
     <<"{", "fa", "}">>,
     <<"{", "fa", "cx", "}">>,
     <<"{", "fa", "fb", "}">>,
     <<" ", "{", "fb", "}", " ">>,
     <<"{", "o{", "x", "y", "}", "}">>,
     <<"{", "o{", "y", "x", "}", "fb", "}">>,
     <<>>,
     <<"{", "fa">>,
     <<"fa", "}">>,
     <<"{", "o{", "x", "}">>,
     <<"{", "fa", "}", "{">>}

InitAsm == InitQuery("asm")

\* content_block_start of a tool_use block (lines 194-215); the service has
\* the argument text of the block ready
AsmBlockStart ==
    /\ mode = "asm"
    /\ Len(toolUseRequests) < MaxTools
    /\ \E o \in Offers, text \in ArgumentTexts :
          LET id == SeqMax(contentBlockIds) + 1
          IN /\ BlockStart(id, o.name, o.input)
             /\ argBlock' = [id |-> id, name |-> o.name, input |-> o.input]
             /\ argText' = text
             /\ argRest' = text
             /\ argCuts' = {}
    /\ UNCHANGED <<mode, decoderVars, permVars, replVars, iterVars>>

\* content_block_delta carrying the next n tokens of the argument text
\* (lines 221-234)
AsmDelta(n) ==
    /\ mode = "asm"
    /\ currentToolUseId # 0
    /\ currentToolUseId = argBlock.id
    /\ n \in 0..Len(argRest)
    /\ JsonDelta(SubSeq(argRest, 1, n))
    /\ argRest' = SubSeq(argRest, n + 1, Len(argRest))
    /\ argCuts' = argCuts \cup {Len(argText) - Len(argRest) + n}
    /\ UNCHANGED <<mode, decoderVars, permVars, replVars, iterVars, argBlock, argText>>

NextAsm ==
    \/ TopLevelCall
    \/ FetchOk
    \/ AsmBlockStart
    \/ \E n \in 0..Len(argRest) : AsmDelta(n)
    \/ FrameBlockStop

SpecAsm == InitAsm /\ [][NextAsm]_vars

\* the requests collected for the block being streamed
AsmRequests == {k \in DOMAIN toolUseRequests : toolUseRequests[k].id = argBlock.id}

\* the fragment boundaries at which the text received so far parsed
ParsedCuts ==
    {c \in argCuts : LooksComplete(SubSeq(argText, 1, c)) /\ JSONValid(SubSeq(argText, 1, c))}

\* C20: however the argument text of a tool block is cut into fragments, once
\* the whole text has arrived and is valid JSON the request holds its parse;
\* as long as nothing received has parsed, the request holds the input of its
\* content_block_start
C20_AssemblyIndependentOfSplit ==
    mode = "asm" =>
        \A k \in AsmRequests :
            /\ (Len(argText) \in argCuts /\ JSONValid(argText)) =>
                   toolUseRequests[k].input = JSONParse(argText)
            /\ ParsedCuts = {} => toolUseRequests[k].input = argBlock.input

\* a nested object arrived in three or more fragments, one of them ending at
\* a closing brace that does not complete the text
C20_Witness ==
    /\ mode = "asm"
    /\ argText = <<"{", "o{", "y", "x", "}", "fb", "}">>
    /\ argRest = <<>>
    /\ Cardinality(argCuts) >= 3
    /\ 5 \in argCuts
    /\ \E k \in AsmRequests : toolUseRequests[k].input = <<"oyx", "fb">>

\* ------------------------------------------------------------------------
\* Turns in which the remote service repeats block ids, within a response
\* and in the responses of later steps, and mixes text with tool requests
\* ------------------------------------------------------------------------
InitBlk == InitQuery("blk")

\* content_block_start of a tool_use block (lines 176-215) whose id is new or
\* one already sent in this turn; argBlock keeps what was sent
BlockSent ==
    /\ mode = "blk"
    /\ Len(toolUseRequests) < MaxTools
    /\ remoteCalls <= MaxSteps
    /\ \E id \in BlockIds, o \in Offers :
          /\ BlockStart(id, o.name, o.input)
          /\ argBlock' = [id |-> id, name |-> o.name, input |-> o.input]
    /\ UNCHANGED <<mode, decoderVars, permVars, replVars, iterVars, argText, argRest, argCuts>>

NextBlk ==
    \/ TopLevelCall
    \/ FetchOk
    \/ BlockSent
    \/ FrameMessageStart
    \/ FrameTextDelta
    \/ FrameBlockStop
    \/ StreamEnds
    \/ QuerySchedCall
    \/ ReadTaskSettles
    \/ ReadGeneratorDone
    \/ WriteTaskSettles
    \/ QueryResultAfterRead
    \/ QueryResultAfterWrite
    \/ Recurse
    \/ QFinally

SpecBlk == InitBlk /\ [][NextBlk]_vars

\* C21: the accepted requests of a step have pairwise different ids, none of
\* them is the id of a request executed in an earlier step of the turn, and no
\* id is executed twice in a turn
C21_IdAssembledOnce ==
    /\ \A i, j \in DOMAIN toolUseRequests :
          toolUseRequests[i].id = toolUseRequests[j].id => i = j
    /\ qpc = "stream" => \A k \in DOMAIN toolUseRequests : toolUseRequests[k].id \notin toolIds
    /\ \A i, j \in DOMAIN AllCalls : AllCalls[i].toolUse.id = AllCalls[j].toolUse.id => i = j

\* in a later step of a turn a content_block_start that repeats the id of a
\* request accepted from the same response, under another tool name, was ignored
C21_Witness ==
    /\ mode = "blk"
    /\ qpc = "stream"
    /\ \E k \in DOMAIN toolUseRequests :
          toolUseRequests[k].id = argBlock.id /\ toolUseRequests[k].name # argBlock.name
    /\ toolIds # {}

\* C22: while the tools of a step run, the messages for the next call are the
\* messages of the step, then one assistant message whose content is exactly
\* the tool_use blocks of the accepted requests in request order, then only
\* tool results; text streamed in the same response is in none of them
C22_OneToolUseMessage ==
    qpc = "tools" =>
        LET n == Len(messages)
        IN /\ Len(updatedMessages) > n
           /\ SubSeq(updatedMessages, 1, n) = messages
           /\ updatedMessages[n + 1].role = "assistant"
           /\ updatedMessages[n + 1].content =
                 [k \in DOMAIN toolUseRequests |->
                    Block("tool_use", toolUseRequests[k].id, toolUseRequests[k].name,
                          toolUseRequests[k].input, FALSE)]
           /\ \A k \in (n + 2)..Len(updatedMessages) :
                 /\ updatedMessages[k].role = "user"
                 /\ \A b \in DOMAIN updatedMessages[k].content :
                       updatedMessages[k].content[b].type = "tool_result"

\* a response streamed text and two tool requests, and a tool result is in
C22_Witness ==
    /\ qpc = "tools"
    /\ assistantResponseText # <<>>
    /\ Len(toolUseRequests) = 2
    /\ Len(updatedMessages) > Len(messages) + 1

\* C23: once an error event has been passed on from the remote stream (or
\* from the catch block), the turn has no further remote call and no
\* recursive entry: no "sending" status follows it in the turn's events
C23_NoRecursionAfterErrorFrame ==
    \A k, l \in DOMAIN events :
        (k < l /\ events[k].type = "error" /\ events[k].id = 0) =>
            events[l].type \notin {"status:sending", "status:sending_results"}

\* C24: a remote call that fails ends its step with exactly one error event,
\* without another remote call, without a tool call and without recursion;
\* from there on every step only decrements the depth counter, and the turn
\* ends with turn_complete
C24_RemoteFailureEndsStep ==
    [][/\ (qpc = "fetch" /\ ~aborted /\ qpc' \notin {"fetch", "stream"}) =>
             /\ qpc' = "finally"
             /\ events' = Append(events, Ev("error", 0, TRUE))
             /\ remoteCalls' = remoteCalls
             /\ callLog' = callLog
             /\ fnStarts' = fnStarts
             /\ frames' = frames
             /\ recursionDepth' = recursionDepth
       /\ qpc = "finally" =>
             /\ qpc' \in {"finally", "idle"}
             /\ recursionDepth' = recursionDepth - 1
             /\ remoteCalls' = remoteCalls
             /\ callLog' = callLog
             /\ fnStarts' = fnStarts
             /\ qpc' = "idle" =>
                   (recursionDepth' = 0 /\ events' = Append(events, Ev("turn_complete", 1, FALSE)))
      ]_vars

\* the remote call of a recursive step failed and the turn is over
C24_Witness ==
    /\ qpc = "idle"
    /\ turn = 1
    /\ remoteCalls >= 2
    /\ Len(events) >= 3
    /\ events[Len(events) - 2].type = "status:sending"
    /\ events[Len(events) - 1] = Ev("error", 0, TRUE)
    /\ events[Len(events)].type = "turn_complete"
    /\ CountEv("error") = 1

\* C25: once the abort signal has fired while a response was awaited or
\* consumed, no tool task is started in that turn
C25_NoToolAfterAbort ==
    aborted => \A i \in DOMAIN fnState : fnState[i] = "idle"

\* C26: a turn in which the abort signal fired ends with the aborted status
\* and with neither an error event, nor a final response, nor the completed
\* status
C26_AbortReported ==
    (aborted /\ qpc = "idle") =>
        /\ CountEv("status:aborted") = 1
        /\ CountEv("error") = 0
        /\ CountEv("status:completed") = 0
        /\ CountEv("final_assistant_response") = 0

\* awaiting_permissions events minus permissions_resolved events among the
\* first n events of the turn
OpenWindows(n) ==
    Cardinality({k \in 1..n : events[k].type = "awaiting_permissions"})
        - Cardinality({k \in 1..n : events[k].type = "permissions_resolved"})

\* C27: a tool call has started only after an awaiting_permissions event that
\* no permissions_resolved event has followed yet, and when the tools of the
\* step are done, which is when permissions_resolved is emitted, no call is
\* in flight
C27_CallsInsideWindow ==
    /\ (\E i \in DOMAIN fnState : fnState[i] # "idle") =>
          (qpc = "tools" /\ OpenWindows(Len(events)) = 1)
    /\ (qpc = "tools" /\ spc = "done") => \A i \in DOMAIN fnState : ~InFlight(i)

\* in a recursive step one tool call has settled and another is in flight
C27_Witness ==
    /\ mode = "blk"
    /\ remoteCalls >= 2
    /\ \E i, j \in DOMAIN fnState : Settled(i) /\ InFlight(j)
    /\ OpenWindows(Len(events)) = 1

\* C28: awaiting_permissions and permissions_resolved alternate, starting
\* with awaiting_permissions; a window is open only while the tools of a step
\* run, and none is open at turn_complete
C28_WindowsClosed ==
    /\ \A n \in 0..Len(events) : OpenWindows(n) \in {0, 1}
    /\ OpenWindows(Len(events)) = 1 => qpc = "tools"
    /\ \A n \in DOMAIN events : events[n].type = "turn_complete" => OpenWindows(n) = 0

\* a turn with two tool steps that ended with an error is over
C28_Witness ==
    /\ qpc = "idle"
    /\ CountEv("awaiting_permissions") >= 2
    /\ CountEv("permissions_resolved") = CountEv("awaiting_permissions")
    /\ CountEv("error") >= 1
    /\ events[Len(events)].type = "turn_complete"

\* C29: a request detected as a duplicate is announced by a
\* skipped_duplicate_tool event with its id and name; the turn has no error
\* event, the request is in no request list, no task and no tool call, and
\* no tool_executing event names it; a step that ends with all its requests
\* suppressed ends with the completed status
C29_DuplicateSkippedQuietly ==
    \A k \in DOMAIN events :
        events[k].type = "skipped_duplicate_tool" =>
            LET s == events[k]
                lastStep == \A l \in (k + 1)..Len(events) : events[l].type # "status:sending"
            IN /\ s.id >= 1
               /\ s.toolName # ""
               /\ CountEv("error") = 0
               /\ lastStep => \A i \in DOMAIN toolUseRequests : toolUseRequests[i].id # s.id
               /\ lastStep => \A i \in DOMAIN tasks : tasks[i].toolUse.id # s.id
               /\ \A i \in DOMAIN AllCalls : AllCalls[i].toolUse.id # s.id
               /\ \A l \in DOMAIN events : events[l].type = "tool_executing" => events[l].id # s.id
               /\ (lastStep /\ qpc \in {"finally", "idle"}) =>
                     \E l \in (k + 1)..Len(events) : events[l].type = "status:completed"

\* the only request of the second step was suppressed and the turn is over
C29_Witness ==
    /\ mode = "dup"
    /\ qpc = "idle"
    /\ callLog # <<>>
    /\ remoteCalls = 2
    /\ CountEv("skipped_duplicate_tool") = 1
    /\ CountEv("status:completed") = 1
    /\ events[Len(events)].type = "turn_complete"

\* C30: after a turn that ended with a final assistant response and without
\* an error, the last message of the conversation history is the assistant
\* message with that text, and the final step made no remote call of its own
C30_FinalTextInHistory ==
    (qpc = "idle" /\ turn >= 1 /\ CountEv("final_assistant_response") = 1 /\ CountEv("error") = 0) =>
        /\ history # <<>>
        /\ history[Len(history)].role = "assistant"

\* ------------------------------------------------------------------------
\* History handed from step to step
\* ------------------------------------------------------------------------
IsPrefix(s, t) == Len(s) <= Len(t) /\ SubSeq(t, 1, Len(s)) = s

\* the step is the start of the next remote call of the running turn
NextRemoteCall == turn' = turn /\ remoteCalls' = remoteCalls + 1

\* C31: within a turn the message list of each remote call extends, prefix
\* preserved, the list of the previous remote call; a frame never changes
\* the list it was given, the list under construction only grows, and the
\* caller's history keeps every message while query() runs
C31_HistoryAppendOnly ==
    [][/\ NextRemoteCall => IsPrefix(messages, messages') /\ Len(messages') > Len(messages)
       /\ (turn' = turn /\ remoteCalls' = remoteCalls) => messages' = messages
       /\ (qpc = "tools" /\ qpc' = "tools") => IsPrefix(updatedMessages, updatedMessages')
       /\ (qpc = "stream" /\ qpc' = "tools") => IsPrefix(messages, updatedMessages')
       /\ qpc # "idle" => IsPrefix(history, history')]_vars

\* a third remote call whose list holds the user message and two rounds of
\* ToolUse and ToolResult messages
C31_Witness ==
    /\ remoteCalls >= 3
    /\ qpc = "stream"
    /\ Len(messages) >= 5
    /\ messages[1] = createUserMessage
    /\ \E k \in DOMAIN messages : messages[k].content[1].type = "tool_result"

\* the ToolResult messages of the running step, in the order of the list
StepResultMessages ==
    SubSeq(updatedMessages, Len(messages) + 2, Len(updatedMessages))

\* number of yielded results whose loop body has run: the body of the last
\* yielded result runs before the consumer's next()
Handled == IF spc \in {"ryield", "wyield"} THEN Len(out) - 1 ELSE Len(out)

\* position in the request list of the request with this id
RequestIndex(id) == CHOOSE k \in DOMAIN tasks : tasks[k].toolUse.id = id

\* C35: while the tools of a step run, the list under construction is the
\* list of the step, then the ToolUse message, then one ToolResult message
\* per result the scheduler has yielded, in yield order; results of read
\* tasks precede results of write tasks and the results of write tasks are
\* in request order
C35_ResultsInYieldOrder ==
    qpc = "tools" =>
        /\ Len(updatedMessages) = Len(messages) + 1 + Handled
        /\ updatedMessages[Len(messages) + 1] = ToolUseMessage(toolUseRequests)
        /\ StepResultMessages = [k \in 1..Handled |->
                                    createToolResultMessage(out[k].toolUseId, out[k].error)]
        /\ \A i, j \in DOMAIN out :
              i < j =>
                /\ ~(~tasks[RequestIndex(out[i].toolUseId)].isReadOnly
                      /\ tasks[RequestIndex(out[j].toolUseId)].isReadOnly)
                /\ (~tasks[RequestIndex(out[i].toolUseId)].isReadOnly
                      /\ ~tasks[RequestIndex(out[j].toolUseId)].isReadOnly)
                     => RequestIndex(out[i].toolUseId) < RequestIndex(out[j].toolUseId)

\* a step that requested a write and then a read: the read's result is in
\* the list before the write's
C35_Witness ==
    /\ qpc = "tools"
    /\ spc = "done"
    /\ Len(out) = 2
    /\ Len(tasks) = 2
    /\ ~tasks[1].isReadOnly
    /\ tasks[2].isReadOnly
    /\ StepResultMessages[1].content[1].id = tasks[2].toolUse.id
    /\ StepResultMessages[2].content[1].id = tasks[1].toolUse.id

\* ------------------------------------------------------------------------
\* Invocations of task functions
\* ------------------------------------------------------------------------
\* how often the function of task i of the running step was invoked
TimesInvoked(i) == Cardinality({k \in DOMAIN fnStarts : fnStarts[k] = i})

\* C38: the function of a scheduled task is invoked at most once, and exactly
\* once when the scheduler is exhausted; no ToolUse id whose tool was called
\* in an earlier step of the turn, failed or not, is invoked again, and each
\* id has at most one call() in the turn
C38_InvokedOnce ==
    /\ \A i \in DOMAIN tasks : TimesInvoked(i) <= 1
    /\ spc = "done" => \A i \in DOMAIN tasks : TimesInvoked(i) = 1
    /\ qpc = "tools" =>
          \A k \in DOMAIN callLog, i \in DOMAIN tasks :
              callLog[k].toolUse.id # tasks[i].toolUse.id
    /\ \A id \in {AllCalls[k].toolUse.id : k \in DOMAIN AllCalls} :
          Cardinality({k \in DOMAIN AllCalls : AllCalls[k].toolUse.id = id}) = 1

\* the second step of a turn is exhausted with two tasks invoked, after a
\* first step whose tool failed
C38_Witness ==
    /\ qpc = "tools"
    /\ spc = "done"
    /\ Len(tasks) = 2
    /\ Len(fnStarts) = 2
    /\ callLog # <<>>
    /\ \E k \in DOMAIN messages :
          messages[k].content[1].type = "tool_result" /\ messages[k].content[1].isError

\* ------------------------------------------------------------------------
\* Requests naming a tool that is not registered
\* ------------------------------------------------------------------------
\* C34: when the scheduler is exhausted, every request of the step that
\* names an unregistered tool was a read task, invoked no tool, and has a
\* ToolResult message with isError for its id in the list for the next call
C34_UnknownToolReported ==
    (qpc = "tools" /\ spc = "done") =>
        \A i \in DOMAIN tasks :
            ~findToolByName(tasks[i].toolUse.name) =>
              /\ tasks[i].isReadOnly
              /\ \A k \in DOMAIN StepCalls : StepCalls[k].toolUse.id # tasks[i].toolUse.id
              /\ \E k \in DOMAIN updatedMessages :
                    /\ updatedMessages[k].content[1].type = "tool_result"
                    /\ updatedMessages[k].content[1].id = tasks[i].toolUse.id
                    /\ updatedMessages[k].content[1].isError

\* ------------------------------------------------------------------------
\* Permission prompts of concurrently running tools: the scheduler called
\* with tasks whose tools are registered and whose paths pass the workspace
\* check, so that every call reaches requestPermission
\* ------------------------------------------------------------------------
\* getPermissionKey (part_003 lines 13-20)
getPermissionKey(toolUse) ==
    IF toolUse.name = "editFile" /\ toolUse.input # <<>>
      THEN <<toolUse.name, toolUse.input>>
      ELSE <<toolUse.name>>

\* requestPermission lines 41-46: an approved key is answered without a prompt
NeedsPrompt(toolUse, approved) == getPermissionKey(toolUse) \notin approved

\* task functions invoked by this step of the scheduler: their tool's call()
\* runs synchronously up to its await of requestPermission (tools.js line 29),
\* which opens its prompt unless the key is approved
Prompted ==
    {i \in Range(fnStarts') \ Range(fnStarts) : NeedsPrompt(tasks[i].toolUse, approvedPermissions)}

PermUnchanged == UNCHANGED <<mode, decoderVars, asmVars, replVars, iterVars, approvedPermissions, queryVars>>

InitPerm ==
    /\ mode = "perm"
    /\ \E ro \in TaskLists : tasks = MkTasks(ro)
    /\ maxConcurrency \in 1..MaxConc
    /\ spc = "idle"
    /\ gen = [i \in DOMAIN tasks |-> "none"]
    /\ reqs = [i \in DOMAIN tasks |-> 0]
    /\ cur = [i \in DOMAIN tasks |-> FALSE]
    /\ activeGenerators = {}
    /\ nextIndex = 0
    /\ wpos = 0
    /\ fnState = [i \in DOMAIN tasks |-> "idle"]
    /\ fnStarts = <<>>
    /\ out = <<>>
    /\ TrackerInit
    /\ FrameInit
    /\ EnvInit
    /\ DecoderIdle
    /\ AsmIdle
    /\ PermIdle
    /\ ReplIdle
    /\ IterIdle

PermSchedCall ==
    /\ mode = "perm"
    /\ SchedStart
    /\ asking' = asking \cup Prompted
    /\ PermUnchanged

\* the user answers the prompt of task i (part_003 lines 95-117)
PermAnswered(i, yes) ==
    /\ mode = "perm"
    /\ i \in asking
    /\ asking' = asking \ {i}
    /\ approvedPermissions' = IF yes THEN approvedPermissions \cup {getPermissionKey(tasks[i].toolUse)}
                                     ELSE approvedPermissions
    /\ UNCHANGED <<mode, decoderVars, asmVars, replVars, iterVars, schedVars, queryVars>>

PermPromptAnswered == \E i \in DOMAIN tasks, yes \in BOOLEAN : PermAnswered(i, yes)

\* a call settles only after its prompt was answered
PermReadSettles ==
    /\ mode = "perm"
    /\ \E i \in DOMAIN tasks \ asking : \E o \in {"ok", "err"} : SettleRead(i, o)
    /\ asking' = asking \cup Prompted
    /\ PermUnchanged

PermReadGeneratorDone ==
    /\ mode = "perm"
    /\ \E i \in DOMAIN tasks : RespondDone(i)
    /\ asking' = asking \cup Prompted
    /\ PermUnchanged

PermWriteSettles ==
    /\ mode = "perm"
    /\ \E i \in DOMAIN tasks \ asking : \E o \in {"ok", "err"} : SettleWrite(i, o)
    /\ asking' = asking \cup Prompted
    /\ PermUnchanged

PermNextAfterRead ==
    /\ mode = "perm"
    /\ ResumeAfterRead
    /\ asking' = asking \cup Prompted
    /\ PermUnchanged

PermNextAfterWrite ==
    /\ mode = "perm"
    /\ ResumeAfterWrite
    /\ asking' = asking \cup Prompted
    /\ PermUnchanged

NextPerm ==
    \/ PermSchedCall
    \/ PermPromptAnswered
    \/ PermReadSettles
    \/ PermReadGeneratorDone
    \/ PermWriteSettles
    \/ PermNextAfterRead
    \/ PermNextAfterWrite

SpecPerm == InitPerm /\ [][NextPerm]_vars

\* C39: at most one requestPermission call waits for the user's answer
C39_OnePromptAtATime == Cardinality(asking) <= 1

\* ------------------------------------------------------------------------
\* The iterative orchestrator: query() of src/unnamed/part_001, a while
\* loop instead of the recursion
\* ------------------------------------------------------------------------
\* request lists a response may carry (tool names)
IterRequestLists == {<<>>, <<"viewFile">>, <<"unknownTool", "viewFile">>}

InitIter == InitQuery("iter")

IterUnchanged == UNCHANGED <<mode, decoderVars, asmVars, permVars, replVars, schedVars, queryVars>>

\* the caller calls query(messages, ...) and asks for the first event
\* (lines 165-176)
IterCall ==
    /\ mode = "iter"
    /\ iterPc = "idle"
    /\ iterPc' = "loop"
    /\ iterMessages' = <<"user">>
    /\ isQueryComplete' = FALSE
    /\ UNCHANGED <<iterEvents, iterCalls, iterRequests, iterPos>>
    /\ IterUnchanged

\* queryClaude throws (fetch fails, HTTP error): the catch block of
\* query() yields an error event and the generator ends (lines 332-335)
IterRemoteThrows ==
    /\ mode = "iter"
    /\ iterPc = "loop"
    /\ iterCalls < MaxIterCalls
    /\ iterCalls' = iterCalls + 1
    /\ iterEvents' = Append(iterEvents, "error")
    /\ iterPc' = "done"
    /\ UNCHANGED <<iterMessages, iterRequests, iterPos, isQueryComplete>>
    /\ IterUnchanged

\* One pass of the while loop up to the tool loop (lines 176-283): the
\* stream is read to its end (kind "ok", message_stop seen) or to an error
\* frame (kind "error"), having delivered the blocks of requests and, when
\* text is TRUE, some text
IterResponse(kind, requests, text) ==
    LET streamError == IF kind = "error" THEN <<"error">> ELSE <<>>      \* lines 191-196
        finalText == IF text THEN <<"final_assistant_response">> ELSE <<>>   \* lines 246-248
        pushed == IF kind = "ok"                                        \* lines 251-275
                    THEN (IF text THEN <<"assistant_text">> ELSE <<>>)
                         \o (IF requests # <<>> THEN <<"tool_use">> ELSE <<>>)
                    ELSE <<>>
    IN /\ mode = "iter"
       /\ iterPc = "loop"
       /\ iterCalls < MaxIterCalls
       /\ iterCalls' = iterCalls + 1
       /\ iterMessages' = iterMessages \o pushed
       /\ iterRequests' = requests
       /\ IF requests = <<>>
            THEN \* lines 278-282
                 /\ iterEvents' = iterEvents \o streamError \o finalText \o <<"turn_complete">>
                 /\ isQueryComplete' = TRUE
                 /\ iterPc' = "exit"
                 /\ iterPos' = 0
            ELSE /\ iterEvents' = iterEvents \o streamError \o finalText
                 /\ isQueryComplete' = (kind = "error")
                 /\ iterPc' = "tools"
                 /\ iterPos' = 1
       /\ IterUnchanged

IterStreamRead ==
    \E kind \in {"ok", "error"}, requests \in IterRequestLists, text \in BOOLEAN :
        IterResponse(kind, requests, text)

\* one pass of the tool loop (lines 285-326); threw says whether call() threw
IterTool(threw) ==
    LET name == iterRequests[iterPos]
    IN /\ mode = "iter"
       /\ iterPc = "tools"
       /\ iterPos <= Len(iterRequests)
       /\ IF ~findToolByName(name)
            THEN \* lines 287-290
                 /\ ~threw
                 /\ iterPos' = iterPos + 1
                 /\ UNCHANGED <<iterEvents, iterMessages, isQueryComplete>>
            ELSE IF threw
            THEN \* lines 316-325
                 /\ iterEvents' = iterEvents \o <<"awaiting_permissions", "permissions_resolved", "error">>
                 /\ isQueryComplete' = TRUE
                 /\ iterPos' = Len(iterRequests) + 1
                 /\ UNCHANGED iterMessages
            ELSE \* lines 297-315
                 /\ iterEvents' = iterEvents
                        \o <<"awaiting_permissions", "permissions_resolved", "tool_complete">>
                 /\ iterMessages' = Append(iterMessages, "tool_result")
                 /\ iterPos' = iterPos + 1
                 /\ UNCHANGED isQueryComplete
       /\ UNCHANGED <<iterPc, iterCalls, iterRequests>>
       /\ IterUnchanged

IterToolRuns == \E threw \in BOOLEAN : IterTool(threw)

\* the tool loop is over: back to the while condition (lines 176, 326-327)
IterToolsDone ==
    /\ mode = "iter"
    /\ iterPc = "tools"
    /\ iterPos > Len(iterRequests)
    /\ iterPc' = IF isQueryComplete THEN "exit" ELSE "loop"
    /\ UNCHANGED <<iterEvents, iterMessages, iterCalls, iterRequests, iterPos, isQueryComplete>>
    /\ IterUnchanged

\* after the while loop (lines 329-330)
IterLoopExit ==
    /\ mode = "iter"
    /\ iterPc = "exit"
    /\ iterEvents' = Append(iterEvents, "turn_complete")
    /\ iterPc' = "done"
    /\ UNCHANGED <<iterMessages, iterCalls, iterRequests, iterPos, isQueryComplete>>
    /\ IterUnchanged

NextIter ==
    \/ IterCall
    \/ IterRemoteThrows
    \/ IterStreamRead
    \/ IterToolRuns
    \/ IterToolsDone
    \/ IterLoopExit

SpecIter == InitIter /\ [][NextIter]_vars

IterCount(type) == Cardinality({k \in DOMAIN iterEvents : iterEvents[k] = type})

\* C36: when the iterative query() has ended it has yielded turn_complete
\* exactly once
C36_IterTurnCompleteOnce == iterPc = "done" => IterCount("turn_complete") = 1

\* C37: the iterative query() makes at most MAX_RECURSION_DEPTH remote
\* calls in a turn
C37_IterCallsBounded == iterCalls <= MAX_RECURSION_DEPTH

\* ------------------------------------------------------------------------
\* The caller's input loop: handleUserInput of index.js (lines 503-657)
\* registered as the handler of every input line (line 660)
\* ------------------------------------------------------------------------
InitRepl == InitQuery("repl")

LineKinds == {"text", "stop"}

\* lines 505-508: a line is turned away while a request is being processed
Rejects_never(awaiting) == FALSE

Rejects(awaiting) == ~awaiting

\* handleUserInput runs for a line of the given kind, up to its first await
\* (the first next() on query(), line 544)
ReplLine(kind) ==
    LET inFlight == qpc # "idle"
        rejected == Rejects(isAwaitingUserInput)
    IN /\ mode = "repl"
       /\ linesTyped < MaxLines
       /\ linesTyped' = linesTyped + 1
       /\ lastLine' = [kind |-> kind, rejected |-> rejected, inFlight |-> inFlight]
       /\ IF rejected
            THEN \* lines 505-508
                 UNCHANGED <<isAwaitingUserInput, controller, querySignal, fired,
                             schedVars, queryVars>>
            ELSE IF kind = "stop"
            THEN \* lines 519-527
                 /\ fired' = fired \cup {controller}
                 /\ controller' = controller + 1
                 /\ isAwaitingUserInput' = TRUE
                 /\ aborted' = (querySignal \in fired \cup {controller})
                 /\ UNCHANGED <<querySignal, schedVars, trackerVars, frameVars, frameCount,
                                now, history, turn, events, remoteCalls, callLog>>
            ELSE \* lines 530-544
                 /\ isAwaitingUserInput' = FALSE
                 /\ querySignal' = controller
                 /\ aborted' = (controller \in fired)
                 /\ TurnStart
                 /\ UNCHANGED <<controller, fired>>
       /\ UNCHANGED <<mode, decoderVars, asmVars, permVars, iterVars>>

LineTyped == \E kind \in LineKinds : ReplLine(kind)

\* a frame of query() ends; when turn_complete reaches the handler, or the
\* for-await ends, the handler accepts input again (lines 608-628, 640-645)
ReplFrameExit ==
    /\ mode = "repl"
    /\ FrameExit
    /\ isAwaitingUserInput' =
          IF IsTopLevelExit(decrementRecursionDepth(recursionDepth)) \/ frames - 1 = 0
            THEN TRUE ELSE isAwaitingUserInput
    /\ UNCHANGED <<mode, decoderVars, asmVars, permVars, iterVars,
                   linesTyped, lastLine, controller, querySignal, fired>>

NextRepl ==
    \/ LineTyped
    \/ FetchFails
    \/ FetchOk
    \/ FrameTextDelta
    \/ ToolRequested
    \/ StreamEnds
    \/ QuerySchedCall
    \/ ReadTaskSettles
    \/ ReadGeneratorDone
    \/ QueryResultAfterRead
    \/ Recurse
    \/ ReplFrameExit

SpecRepl == InitRepl /\ [][NextRepl]_vars

\* the step is a line typed while a turn is in flight
LineWhileInFlight == linesTyped' = linesTyped + 1 /\ qpc # "idle"

C33_StopCancels ==
    [][(LineWhileInFlight /\ lastLine'.kind = "stop") => aborted']_vars

====
